---- MODULE Spec2Model ----
(***************************************************************************)
(* rurl: the rule matcher (package rules) over a configuration (package    *)
(* config).  Strings are sequences of one-character strings, so that URL   *)
(* parsing, scope extraction and regular-expression matching are computed  *)
(* rather than assumed.                                                    *)
(***************************************************************************)
EXTENDS Integers, Sequences, FiniteSets, TLC

(***************************************************************************)
(* Bounds of the model.                                                    *)
(***************************************************************************)
\* The longest rule list a configuration of the model carries.
MaxRules == 2

(***************************************************************************)
(* String helpers (Go's strings package, on character sequences).          *)
(***************************************************************************)
Letters ==
    {"a", "b", "c", "d", "e", "f", "g", "h", "i", "j", "k", "l", "m", "n", "o", "p", "q", "r",
     "s", "t", "u", "v", "w", "x", "y", "z"}

Digits == {"0", "1", "2", "3", "4", "5", "6", "7", "8", "9"}

\* strings.Index for a single character: the first position of c in s, 0 when absent.
IndexByte(s, c) ==
    IF \E i \in 1..Len(s) : s[i] = c
    THEN CHOOSE i \in 1..Len(s) : s[i] = c /\ \A j \in 1..(i - 1) : s[j] # c
    ELSE 0

\* strings.HasPrefix.
HasPrefix(s, p) == Len(s) >= Len(p) /\ SubSeq(s, 1, Len(p)) = p

\* strings.Cut for a single character: <<before, after, found>>.
Cut(s, c) ==
    LET i == IndexByte(s, c)
    IN  IF i = 0 THEN <<s, <<>>, FALSE>>
        ELSE <<SubSeq(s, 1, i - 1), SubSeq(s, i + 1, Len(s)), TRUE>>

\* strings.Count for a single character.
Count(s, c) == Cardinality({i \in 1..Len(s) : s[i] = c})

(***************************************************************************)
(* net/url.Parse, as ApplyRules uses it, for the URLs of the model: a      *)
(* fragment is cut off, the scheme is split at the first ':', the query at *)
(* the first '?', an authority follows "//", and the rest is the path.     *)
(* Userinfo, percent-escapes and IPv6 literals are outside the model's     *)
(* inputs.                                                                 *)
(***************************************************************************)
\* getScheme: <<scheme, rest, ok>>.  A scheme is a letter followed by letters, digits, '+', '-'
\* or '.', ended by ':'; a leading ':' is the error "missing protocol scheme"; any other
\* character before a ':' means there is no scheme.
RECURSIVE getSchemeFrom(_, _)
getSchemeFrom(rawURL, i) ==
    IF i > Len(rawURL) THEN <<(<<>>), rawURL, TRUE>>
    ELSE LET c == rawURL[i]
         IN  IF c \in Letters THEN getSchemeFrom(rawURL, i + 1)
             ELSE IF c \in Digits \cup {"+", "-", "."}
             THEN IF i = 1 THEN <<(<<>>), rawURL, TRUE>> ELSE getSchemeFrom(rawURL, i + 1)
             ELSE IF c = ":"
             THEN IF i = 1 THEN <<(<<>>), <<>>, FALSE>>
                  ELSE <<SubSeq(rawURL, 1, i - 1), SubSeq(rawURL, i + 1, Len(rawURL)), TRUE>>
             ELSE <<(<<>>), rawURL, TRUE>>

getScheme(rawURL) == getSchemeFrom(rawURL, 1)

\* A parsed URL that failed to parse.
ParseError == [ok |-> FALSE, Scheme |-> <<>>, Host |-> <<>>, Path |-> <<>>, RawQuery |-> <<>>]

\* The part of url.Parse after the scheme was split off.
parseRest(scheme, rest0) ==
    LET forceQuery == Len(rest0) > 0 /\ rest0[Len(rest0)] = "?" /\ Count(rest0, "?") = 1
        cutQ  == Cut(rest0, "?")
        rest  == IF forceQuery THEN SubSeq(rest0, 1, Len(rest0) - 1) ELSE cutQ[1]
        query == IF forceQuery THEN <<>> ELSE cutQ[2]
        slash == HasPrefix(rest, <<"/">>)
    IN  IF ~slash /\ scheme # <<>>
        THEN \* rootless with a scheme: an opaque URL, no host and no path
             [ok |-> TRUE, Scheme |-> scheme, Host |-> <<>>, Path |-> <<>>, RawQuery |-> query]
        ELSE IF ~slash /\ IndexByte(Cut(rest, "/")[1], ":") # 0
        THEN \* "first path segment in URL cannot contain colon"
             ParseError
        ELSE IF /\ HasPrefix(rest, <<"/", "/">>)
                /\ (scheme # <<>> \/ ~HasPrefix(rest, <<"/", "/", "/">>))
        THEN LET auth == SubSeq(rest, 3, Len(rest))
                 i    == IndexByte(auth, "/")
             IN  [ok       |-> TRUE,
                  Scheme   |-> scheme,
                  Host     |-> IF i = 0 THEN auth ELSE SubSeq(auth, 1, i - 1),
                  Path     |-> IF i = 0 THEN <<>> ELSE SubSeq(auth, i, Len(auth)),
                  RawQuery |-> query]
        ELSE [ok |-> TRUE, Scheme |-> scheme, Host |-> <<>>, Path |-> rest, RawQuery |-> query]

\* url.Parse.
Parse(rawURL) ==
    LET u  == Cut(rawURL, "#")[1]
        sc == getScheme(u)
    IN  IF ~sc[3] THEN ParseError ELSE parseRest(sc[1], sc[2])

\* URL.Hostname: the host without its port, that is up to its first ':'.
Hostname(u) ==
    LET colon == IndexByte(u.Host, ":")
    IN  IF colon = 0 THEN u.Host ELSE SubSeq(u.Host, 1, colon - 1)

(***************************************************************************)
(* regexp.Compile and Regexp.MatchString for the patterns of the model: *)
(* literals, "\x" (the character x), "." (any character but newline), "^"  *)
(* and "$" (begin and end of text).  A "[" with no closing "]", an         *)
(* unbalanced parenthesis or a trailing backslash is a compile error.      *)
(***************************************************************************)
\* Whether position i of the pattern is escaped by a backslash it follows.
RECURSIVE Escaped(_, _)
Escaped(pattern, i) == i > 1 /\ pattern[i - 1] = "\\" /\ ~Escaped(pattern, i - 1)

\* The nesting depth of "(" left open after the whole pattern, -1 once a ")" closes nothing.
RECURSIVE ParenDepth(_, _, _)
ParenDepth(pattern, i, depth) ==
    IF depth < 0 \/ i > Len(pattern) THEN depth
    ELSE IF Escaped(pattern, i) THEN ParenDepth(pattern, i + 1, depth)
    ELSE IF pattern[i] = "(" THEN ParenDepth(pattern, i + 1, depth + 1)
    ELSE IF pattern[i] = ")" THEN ParenDepth(pattern, i + 1, depth - 1)
    ELSE ParenDepth(pattern, i + 1, depth)

\* regexp.Compile's err == nil.
Compiles(pattern) ==
    /\ \A i \in 1..Len(pattern) :
          (pattern[i] = "[" /\ ~Escaped(pattern, i))
              => \E j \in (i + 2)..Len(pattern) : pattern[j] = "]"
    /\ ParenDepth(pattern, 1, 0) = 0
    /\ ~(Len(pattern) > 0 /\ pattern[Len(pattern)] = "\\" /\ ~Escaped(pattern, Len(pattern)))

\* Whether the compiled pattern, read from position k, matches text at offset pos (the number
\* of characters already consumed).
RECURSIVE MatchHere(_, _, _, _)
MatchHere(pattern, k, text, pos) ==
    IF k > Len(pattern) THEN TRUE
    ELSE LET c == pattern[k]
         IN  IF c = "\\"
             THEN /\ pos < Len(text)
                  /\ text[pos + 1] = pattern[k + 1]
                  /\ MatchHere(pattern, k + 2, text, pos + 1)
             ELSE IF c = "^" THEN pos = 0 /\ MatchHere(pattern, k + 1, text, pos)
             ELSE IF c = "$" THEN pos = Len(text) /\ MatchHere(pattern, k + 1, text, pos)
             ELSE IF c = "."
             THEN /\ pos < Len(text)
                  /\ text[pos + 1] # "\n"
                  /\ MatchHere(pattern, k + 1, text, pos + 1)
             ELSE /\ pos < Len(text)
                  /\ text[pos + 1] = c
                  /\ MatchHere(pattern, k + 1, text, pos + 1)

\* Regexp.MatchString: the pattern matches somewhere in the text (no implicit anchoring).
MatchString(pattern, text) == \E pos \in 0..Len(text) : MatchHere(pattern, 1, text, pos)

\* "https://work.example.com/path?x=1"
UrlWorkPathQuery ==
    <<"h", "t", "t", "p", "s", ":", "/", "/", "w", "o", "r", "k", ".", "e", "x", "a", "m", "p",
      "l", "e", ".", "c", "o", "m", "/", "p", "a", "t", "h", "?", "x", "=", "1">>

\* "https://work.example.com/path"
UrlWorkPath ==
    <<"h", "t", "t", "p", "s", ":", "/", "/", "w", "o", "r", "k", ".", "e", "x", "a", "m", "p",
      "l", "e", ".", "c", "o", "m", "/", "p", "a", "t", "h">>

\* "https://example.com/work/dashboard"
UrlWorkDashboard ==
    <<"h", "t", "t", "p", "s", ":", "/", "/", "e", "x", "a", "m", "p", "l", "e", ".", "c", "o",
      "m", "/", "w", "o", "r", "k", "/", "d", "a", "s", "h", "b", "o", "a", "r", "d">>

\* "https://example.com"
UrlExample ==
    <<"h", "t", "t", "p", "s", ":", "/", "/", "e", "x", "a", "m", "p", "l", "e", ".", "c", "o",
      "m">>

\* "example.com/foo"
UrlBare ==
    <<"e", "x", "a", "m", "p", "l", "e", ".", "c", "o", "m", "/", "f", "o", "o">>

\* ":foo"
UrlNoScheme ==
    <<":", "f", "o", "o">>

\* "^https://example\.com"
PatExample ==
    <<"^", "h", "t", "t", "p", "s", ":", "/", "/", "e", "x", "a", "m", "p", "l", "e", "\\", ".",
      "c", "o", "m">>

\* "^https://example\.com/work"
PatExampleWork ==
    <<"^", "h", "t", "t", "p", "s", ":", "/", "/", "e", "x", "a", "m", "p", "l", "e", "\\", ".",
      "c", "o", "m", "/", "w", "o", "r", "k">>

\* "^https://example\.co."
PatExampleTie ==
    <<"^", "h", "t", "t", "p", "s", ":", "/", "/", "e", "x", "a", "m", "p", "l", "e", "\\", ".",
      "c", "o", ".">>

\* "^https://work\.example\.com"
PatWorkSchemeHost ==
    <<"^", "h", "t", "t", "p", "s", ":", "/", "/", "w", "o", "r", "k", "\\", ".", "e", "x", "a",
      "m", "p", "l", "e", "\\", ".", "c", "o", "m">>

\* "[invalid(regex"
PatInvalid ==
    <<"[", "i", "n", "v", "a", "l", "i", "d", "(", "r", "e", "g", "e", "x">>

\* "^work\.example\.com$"
PatWorkHost ==
    <<"^", "w", "o", "r", "k", "\\", ".", "e", "x", "a", "m", "p", "l", "e", "\\", ".", "c", "o",
      "m", "$">>

\* "^/path$"
PatPath ==
    <<"^", "/", "p", "a", "t", "h", "$">>

\* "^https://work\.example\.com/path"
PatWorkUrl ==
    <<"^", "h", "t", "t", "p", "s", ":", "/", "/", "w", "o", "r", "k", "\\", ".", "e", "x", "a",
      "m", "p", "l", "e", "\\", ".", "c", "o", "m", "/", "p", "a", "t", "h">>

\* "^https://work\.example\.com/path$"
PatWorkUrlEnd ==
    <<"^", "h", "t", "t", "p", "s", ":", "/", "/", "w", "o", "r", "k", "\\", ".", "e", "x", "a",
      "m", "p", "l", "e", "\\", ".", "c", "o", "m", "/", "p", "a", "t", "h", "$">>

\* "^example\.com/foo$"
PatBareUrl ==
    <<"^", "e", "x", "a", "m", "p", "l", "e", "\\", ".", "c", "o", "m", "/", "f", "o", "o", "$">>

(***************************************************************************)
(* Configuration data (package config).                                    *)
(***************************************************************************)
ScopeURL == "url"

ScopeDomain == "domain"

ScopePath == "path"

\* config.Profile values.
ProfileDefault ==
    [ID |-> "default-profile", Name |-> "Default", BrowserID |-> "chrome", ProfileDir |-> "Default"]

ProfileWork ==
    [ID |-> "work-profile", Name |-> "Work", BrowserID |-> "chrome", ProfileDir |-> "Profile 1"]

ProfilePersonal ==
    [ID |-> "personal-profile", Name |-> "Personal", BrowserID |-> "firefox",
     ProfileDir |-> "personal"]

\* config.Rule values.  An unset Scope is the empty string, as in the rules of the tests.
Rule(name, pattern, scope, profileID, incognito) ==
    [Name |-> name, Pattern |-> pattern, Scope |-> scope, ProfileID |-> profileID,
     Incognito |-> incognito]

RuleGenericDomain == Rule("Generic Domain", PatExample, "", "default-profile", FALSE)

RuleSpecificPath == Rule("Specific Path", PatExampleWork, "", "work-profile", TRUE)

RuleSameLength == Rule("Same Length", PatExampleTie, ScopeURL, "personal-profile", TRUE)

RuleWorkDomain == Rule("Work Domain", PatWorkSchemeHost, ScopeDomain, "work-profile", FALSE)

RuleInvalid == Rule("Invalid Rule", PatInvalid, "", "default-profile", FALSE)

RuleHost == Rule("Host", PatWorkHost, ScopeDomain, "personal-profile", TRUE)

RulePath == Rule("Path", PatPath, ScopePath, "work-profile", FALSE)

RuleUrlPrefix == Rule("Url Prefix", PatWorkUrl, ScopeURL, "work-profile", TRUE)

RuleUrlEnd == Rule("Url End", PatWorkUrlEnd, ScopeURL, "personal-profile", FALSE)

RuleBare == Rule("Bare", PatBareUrl, ScopeURL, "default-profile", FALSE)

\* The rules, profile lists, default profile ids and input URLs the configurations and calls
\* of the model are drawn from.
RulePool ==
    {RuleGenericDomain, RuleSpecificPath, RuleSameLength, RuleWorkDomain, RuleInvalid, RuleHost,
     RulePath, RuleUrlPrefix, RuleUrlEnd, RuleBare}

ProfileLists ==
    {<<ProfileDefault>>, <<ProfileDefault, ProfileWork>>,
     <<ProfileDefault, ProfileWork, ProfilePersonal>>}

DefaultProfileIDs == {"", "default-profile", "work-profile"}

InputURLs == {UrlWorkPathQuery, UrlWorkPath, UrlWorkDashboard, UrlExample, UrlBare, UrlNoScheme}

RuleLists == UNION {[1..n -> RulePool] : n \in 0..MaxRules}

\* A nil *config.Config.
NilConfig == [nil |-> TRUE]

\* Addresses of the backing arrays of rule slices: the one cfg.Rules points to, and the one
\* make() allocates inside ApplyRules.
CfgRulesArray == "cfg.Rules"

NewArray == "rulesToSort"

(***************************************************************************)
(* State.                                                                  *)
(***************************************************************************)
VARIABLES
    cfg,        \* the caller's *config.Config (NilConfig, or a record whose Rules is an address)
    mem,        \* the backing arrays of the rule slices, by address
    inputURL,   \* the URL string handed to ApplyRules
    pc,         \* "start" before the call of ApplyRules, "returned" after it
    result,     \* what ApplyRules returned: MatchResult fields and err
    \* ResolveShortenedURL
    rpc,            \* "idle", "loop" inside the loop, "done" once it returned
    shortURL,       \* the URL handed to ResolveShortenedURL
    currentURL,     \* the URL of the current hop
    hop,            \* the loop counter i
    requests,       \* the requests issued so far, each with what it got
    resolveResult,  \* what ResolveShortenedURL returned: url and err
    \* runRootCmd
    rootPc,         \* "idle", "process", "rules", "exited"
    args,           \* the command's arguments
    proc,           \* what ProcessURL returned
    urlToLaunch,    \* the URL chosen for Launch
    launched,       \* <<>>, or the call of Launch: its arguments and whether a process started
    exitCode,       \* -1 while running, then the exit code
    \* the config commands
    file,           \* the configuration file on disk
    cmd             \* the last config command that ran: its name, arguments and outcome

matcherVars == <<cfg, mem, inputURL, pc, result>>

resolverVars == <<rpc, shortURL, currentURL, hop, requests, resolveResult>>

rootVars == <<rootPc, args, proc, urlToLaunch, launched, exitCode>>

configVars == <<file, cmd>>

vars == <<matcherVars, resolverVars, rootVars, configVars>>

\* No configuration file at the path.
NoFile == [state |-> "absent"]

\* No config command ran.
NoCommand == [name |-> "", arg |-> "", outcome |-> ""]

ConfigIdle == file = NoFile /\ cmd = NoCommand

(***************************************************************************)
(* package rules.                                                          *)
(***************************************************************************)
NoError == "nil"

ErrNilConfig == "configuration is nil"

ErrParse == "failed to parse URL"

ErrRuleProfile == "profile specified in rule not found"

ErrNoDefault == "no matching rule found and no default profile is configured"

ErrDefaultNotFound == "default profile not found"

\* MatchResult{} returned with an error.
Failure(err) == [Rule |-> <<>>, ProfileID |-> "", Incognito |-> FALSE, err |-> err]

\* A MatchResult returned with a nil error; Rule is <<>> for a nil pointer, <<r>> for &r.
MatchResult(rule, profileID, incognito) ==
    [Rule |-> rule, ProfileID |-> profileID, Incognito |-> incognito, err |-> NoError]

\* (c *Config) FindProfileByID: whether the lookup returns a profile (err == nil).
FindProfileByID(profiles, id) == \E i \in 1..Len(profiles) : profiles[i].ID = id

\* getMatchString as it would be if the URL scope left the query out.
getMatchStringWithoutQuery(parsedURL, scope) ==
    IF scope = ScopeDomain THEN Hostname(parsedURL)
    ELSE IF scope = ScopePath THEN parsedURL.Path
    ELSE IF parsedURL.Scheme # <<>>
    THEN parsedURL.Scheme \o <<":", "/", "/">> \o parsedURL.Host \o parsedURL.Path
    ELSE parsedURL.Host \o parsedURL.Path

\* getMatchString: the part of the URL a rule of this scope is matched against.
getMatchString(parsedURL, scope) ==
    IF scope = ScopeDomain THEN Hostname(parsedURL)
    ELSE IF scope = ScopePath THEN parsedURL.Path
    ELSE LET base == IF parsedURL.Scheme # <<>>
                     THEN parsedURL.Scheme \o <<":", "/", "/">> \o parsedURL.Host \o parsedURL.Path
                     ELSE parsedURL.Host \o parsedURL.Path
         IN  IF parsedURL.RawQuery # <<>> THEN base \o <<"?">> \o parsedURL.RawQuery ELSE base

\* parseInput as it would be if the bare string also got the scheme of the second parse.
parseInputAdoptingScheme(url) ==
    LET parsedURL == Parse(url)
        tmpURL    == Parse(<<"h", "t", "t", "p", ":", "/", "/">> \o url)
    IN  IF /\ parsedURL.ok
           /\ parsedURL.Scheme = <<>> /\ parsedURL.Host = <<>> /\ parsedURL.Path # <<>>
           /\ tmpURL.ok
        THEN [parsedURL EXCEPT !.Scheme = tmpURL.Scheme, !.Host = tmpURL.Host,
                               !.Path = tmpURL.Path]
        ELSE parsedURL

\* The URL ApplyRules matches against: url.Parse of the input and, for an input with no scheme
\* and no host but a path, the host and path of the input parsed behind "http://".
parseInput(url) ==
    LET parsedURL == Parse(url)
        tmpURL    == Parse(<<"h", "t", "t", "p", ":", "/", "/">> \o url)
    IN  IF /\ parsedURL.ok
           /\ parsedURL.Scheme = <<>> /\ parsedURL.Host = <<>> /\ parsedURL.Path # <<>>
           /\ tmpURL.ok
        THEN [parsedURL EXCEPT !.Host = tmpURL.Host, !.Path = tmpURL.Path]
        ELSE parsedURL

\* less as it would be with the comparison reversed: shorter patterns first.
lessShorterFirst(a, b) == Len(a.Pattern) < Len(b.Pattern)

\* The less function handed to sort.Slice: longer patterns first.
less(a, b) == Len(a.Pattern) > Len(b.Pattern)

\* sort.Slice on a slice of at most 12 elements is an insertion sort: element j moves left
\* while it is less than its left neighbour.
RECURSIVE insertLeft(_, _)
insertLeft(s, j) ==
    IF j > 1 /\ less(s[j], s[j - 1])
    THEN insertLeft([s EXCEPT ![j] = s[j - 1], ![j - 1] = s[j]], j - 1)
    ELSE s

RECURSIVE insertionSort(_, _)
insertionSort(s, i) == IF i > Len(s) THEN s ELSE insertionSort(insertLeft(s, i), i + 1)

sortSlice(s) == insertionSort(s, 2)

\* rulesToSortArray as it would be if the caller's slice were sorted in place.
rulesToSortArrayAliased(callerRules) == callerRules

\* The address of the slice ApplyRules sorts: a fresh array, allocated by make().
rulesToSortArray(callerRules) == NewArray

\* Memory after rulesToSort was allocated, filled by copy() from callerRules, and sorted.
memAfterSort(m, callerRules) ==
    LET dst    == rulesToSortArray(callerRules)
        copied == [m EXCEPT ![dst] = m[callerRules]]
    IN  [copied EXCEPT ![dst] = sortSlice(copied[dst])]

\* checkRule as it would be if a matched rule with a missing profile were passed over.
checkRuleIgnoringMissingProfile(profiles, parsedURL, rule) ==
    IF ~Compiles(rule.Pattern)
    THEN [done |-> FALSE]
    ELSE IF /\ MatchString(rule.Pattern, getMatchString(parsedURL, rule.Scope))
            /\ FindProfileByID(profiles, rule.ProfileID)
    THEN [done |-> TRUE, res |-> MatchResult(<<rule>>, rule.ProfileID, rule.Incognito)]
    ELSE [done |-> FALSE]

\* checkRule as it would be if a pattern that does not compile ended the call.
checkRuleFailingOnBadPattern(profiles, parsedURL, rule) ==
    IF ~Compiles(rule.Pattern)
    THEN [done |-> TRUE, res |-> Failure("invalid regex pattern")]
    ELSE IF MatchString(rule.Pattern, getMatchString(parsedURL, rule.Scope))
    THEN IF ~FindProfileByID(profiles, rule.ProfileID)
         THEN [done |-> TRUE, res |-> Failure(ErrRuleProfile)]
         ELSE [done |-> TRUE, res |-> MatchResult(<<rule>>, rule.ProfileID, rule.Incognito)]
    ELSE [done |-> FALSE]

\* One iteration of the loop over the sorted rules: done with a result, or on to the next rule.
checkRule(profiles, parsedURL, rule) ==
    IF ~Compiles(rule.Pattern)
    THEN [done |-> FALSE]
    ELSE IF MatchString(rule.Pattern, getMatchString(parsedURL, rule.Scope))
    THEN IF ~FindProfileByID(profiles, rule.ProfileID)
         THEN [done |-> TRUE, res |-> Failure(ErrRuleProfile)]
         ELSE [done |-> TRUE, res |-> MatchResult(<<rule>>, rule.ProfileID, rule.Incognito)]
    ELSE [done |-> FALSE]

\* noMatch as it would be if the fallback took the first profile of the list.
noMatchFirstProfile(profiles, defaultProfileID) ==
    IF defaultProfileID = "" THEN Failure(ErrNoDefault)
    ELSE IF ~FindProfileByID(profiles, defaultProfileID) THEN Failure(ErrDefaultNotFound)
    ELSE MatchResult(<<>>, profiles[1].ID, FALSE)

\* noMatch as it would be without the test for an empty default profile id.
noMatchWithoutEmptyCheck(profiles, defaultProfileID) ==
    IF ~FindProfileByID(profiles, defaultProfileID) THEN Failure(ErrDefaultNotFound)
    ELSE MatchResult(<<>>, defaultProfileID, FALSE)

\* noMatch as it would be if the default profile id were returned without being looked up.
noMatchUnvalidatedDefault(profiles, defaultProfileID) ==
    IF defaultProfileID = "" THEN Failure(ErrNoDefault)
    ELSE MatchResult(<<>>, defaultProfileID, FALSE)

\* The end of ApplyRules, reached when no rule matched: the default profile.
noMatch(profiles, defaultProfileID) ==
    IF defaultProfileID = "" THEN Failure(ErrNoDefault)
    ELSE IF ~FindProfileByID(profiles, defaultProfileID) THEN Failure(ErrDefaultNotFound)
    ELSE MatchResult(<<>>, defaultProfileID, FALSE)

\* The loop of ApplyRules from rule i of the sorted slice on.
RECURSIVE scanRules(_, _, _, _, _)
scanRules(profiles, defaultProfileID, parsedURL, sorted, i) ==
    IF i > Len(sorted) THEN noMatch(profiles, defaultProfileID)
    ELSE LET step == checkRule(profiles, parsedURL, sorted[i])
         IN  IF step.done THEN step.res
             ELSE scanRules(profiles, defaultProfileID, parsedURL, sorted, i + 1)

\* What ApplyRules returns for a non-nil config with these profiles, default and rules.
matchRules(profiles, defaultProfileID, rules, url) ==
    LET parsedURL == parseInput(url)
    IN  IF ~parsedURL.ok THEN Failure(ErrParse)
        ELSE scanRules(profiles, defaultProfileID, parsedURL, sortSlice(rules), 1)

\* ApplyRules(cfg, inputURL).
ApplyRules ==
    /\ pc = "start"
    /\ pc' = "returned"
    /\ IF cfg = NilConfig
       THEN /\ result' = Failure(ErrNilConfig)
            /\ mem' = mem
       ELSE LET parsedURL == parseInput(inputURL)
            IN  IF ~parsedURL.ok
                THEN /\ result' = Failure(ErrParse)
                     /\ mem' = mem
                ELSE /\ mem' = memAfterSort(mem, cfg.Rules)
                     /\ result' = scanRules(cfg.Profiles, cfg.DefaultProfileID, parsedURL,
                                            mem'[rulesToSortArray(cfg.Rules)], 1)
    /\ UNCHANGED <<cfg, inputURL, resolverVars, rootVars, configVars>>

\* "http"
SchemeHTTP ==
    <<"h", "t", "t", "p">>

\* "https"
SchemeHTTPS ==
    <<"h", "t", "t", "p", "s">>

\* "https://bit.ly/abc"
UrlShort ==
    <<"h", "t", "t", "p", "s", ":", "/", "/", "b", "i", "t", ".", "l", "y", "/", "a", "b", "c">>

\* "https://bit.ly/next"
UrlShortNext ==
    <<"h", "t", "t", "p", "s", ":", "/", "/", "b", "i", "t", ".", "l", "y", "/", "n", "e", "x",
      "t">>

\* "http://t.co/x"
UrlShortPlain ==
    <<"h", "t", "t", "p", ":", "/", "/", "t", ".", "c", "o", "/", "x">>

\* "https://sub.bit.ly/abc"
UrlSubdomain ==
    <<"h", "t", "t", "p", "s", ":", "/", "/", "s", "u", "b", ".", "b", "i", "t", ".", "l", "y",
      "/", "a", "b", "c">>

\* "https://notbit.ly/abc"
UrlSuperstring ==
    <<"h", "t", "t", "p", "s", ":", "/", "/", "n", "o", "t", "b", "i", "t", ".", "l", "y", "/",
      "a", "b", "c">>

\* "ftp://bit.ly/abc"
UrlFtpShort ==
    <<"f", "t", "p", ":", "/", "/", "b", "i", "t", ".", "l", "y", "/", "a", "b", "c">>

\* "not a url"
UrlNotAUrl ==
    <<"n", "o", "t", " ", "a", " ", "u", "r", "l">>

\* "/next"
LocNext ==
    <<"/", "n", "e", "x", "t">>

\* "bit.ly"
DomainBitly ==
    <<"b", "i", "t", ".", "l", "y">>

\* "t.co"
DomainTco ==
    <<"t", ".", "c", "o">>

(***************************************************************************)
(* net/url: URL.String and URL.ResolveReference, for URLs without          *)
(* userinfo, fragment, opaque part or dot segments.                        *)
(***************************************************************************)
\* URL.String: the URL reassembled from its parts.
String(u) ==
    LET scheme == IF u.Scheme # <<>> THEN u.Scheme \o <<":">> ELSE <<>>
        auth   == IF (u.Scheme # <<>> \/ u.Host # <<>>) /\ (u.Host # <<>> \/ u.Path # <<>>)
                  THEN <<"/", "/">> \o u.Host
                  ELSE <<>>
        path   == IF u.Path # <<>> /\ u.Path[1] # "/" /\ u.Host # <<>>
                  THEN <<"/">> \o u.Path
                  ELSE u.Path
        query  == IF u.RawQuery # <<>> THEN <<"?">> \o u.RawQuery ELSE <<>>
    IN  scheme \o auth \o path \o query

\* resolvePath: the reference path against the base path; a relative reference replaces what
\* follows the last '/' of the base.
resolvePath(base, ref) ==
    LET lastSlash == IF \E k \in 1..Len(base) : base[k] = "/"
                     THEN CHOOSE k \in 1..Len(base) :
                              base[k] = "/" /\ \A j \in (k + 1)..Len(base) : base[j] # "/"
                     ELSE 0
        full == IF ref = <<>> THEN base
                ELSE IF ref[1] # "/" THEN SubSeq(base, 1, lastSlash) \o ref
                ELSE ref
    IN  IF full = <<>> THEN <<>>
        ELSE IF full[1] = "/" THEN full
        ELSE <<"/">> \o full

\* URL.ResolveReference: an absolute reference (or one with a host) stands for itself, any
\* other takes the scheme and host of the base.
\* A URL.ResolveReference that stays on the base URL.
ResolveReferenceKeepingBase(u, ref) == u

ResolveReference(u, ref) ==
    IF ref.Scheme # <<>> \/ ref.Host # <<>>
    THEN [ok       |-> TRUE,
          Scheme   |-> IF ref.Scheme = <<>> THEN u.Scheme ELSE ref.Scheme,
          Host     |-> ref.Host,
          Path     |-> resolvePath(ref.Path, <<>>),
          RawQuery |-> ref.RawQuery]
    ELSE [ok       |-> TRUE,
          Scheme   |-> u.Scheme,
          Host     |-> u.Host,
          Path     |-> resolvePath(u.Path, ref.Path),
          RawQuery |-> IF ref.Path = <<>> /\ ref.RawQuery = <<>> THEN u.RawQuery
                       ELSE ref.RawQuery]

(***************************************************************************)
(* package urlhandler: ResolveShortenedURL.                                *)
(***************************************************************************)
\* The hop limit of ResolveShortenedURL.
maxRedirects == 5

ErrCreateRequest == "failed to create request"

ErrRequest == "failed to perform request"

ErrNoLocation == "redirect response had no Location header"

ErrParseLocation == "failed to parse redirect location"

ErrTooManyRedirects == "too many redirects"

ErrStatus == "unexpected status code"

ErrUnexpectedState == "unexpected state after resolving redirects"

\* What client.Do gives: a transport failure (timeout included), or a response.
TransportFailure == [failed |-> TRUE, StatusCode |-> 0, Location |-> <<>>]

Response(status, location) == [failed |-> FALSE, StatusCode |-> status, Location |-> location]

\* What client.Do may give for one request that was sent.  The client parses the Location of
\* a redirect before it asks CheckRedirect and returns an error instead of the response if
\* that fails, so a redirect whose Location does not parse is a failure here.
Responses ==
    {TransportFailure,
     Response(200, <<>>), Response(204, <<>>),
     Response(301, UrlExample), Response(302, LocNext), Response(307, UrlShortNext),
     Response(301, <<>>), Response(308, <<>>),
     Response(404, <<>>), Response(500, <<>>)}

\* client.Do(req): the transport cannot send a request whose URL has no http or https scheme
\* or no host; otherwise the network answers.
Do(parsedURL, answer) ==
    IF parsedURL.Scheme \notin {SchemeHTTP, SchemeHTTPS} \/ parsedURL.Host = <<>>
    THEN TransportFailure
    ELSE answer

\* A GET fallback on every hop.
fallsBackToGETOnAnyHop(i, headFailed) == headFailed

\* Whether hop i retries a failed HEAD with GET.
fallsBackToGET(i, headFailed) == headFailed /\ i = 0

\* The requests hop i issues for currentURL, with what each got.
requestsOfHop(url, i, head, get) ==
    <<[Method |-> "HEAD", URL |-> url, hop |-> i, resp |-> head]>>
        \o (IF fallsBackToGET(i, head.failed)
            THEN <<[Method |-> "GET", URL |-> url, hop |-> i, resp |-> get]>>
            ELSE <<>>)

\* The return of ResolveShortenedURL: (url, nil) or ("", err).
Resolved(url) == [url |-> url, err |-> NoError]

ResolveFailure(err) == [url |-> <<>>, err |-> err]

\* A loop body without the check of the hop limit.
handleResponseUncapped(url, i, resp) ==
    IF resp.failed THEN [return |-> TRUE, ret |-> ResolveFailure(ErrRequest)]
    ELSE IF resp.StatusCode >= 300 /\ resp.StatusCode < 400
    THEN IF resp.Location = <<>>
         THEN [return |-> TRUE, ret |-> ResolveFailure(ErrNoLocation)]
         ELSE IF ~Parse(resp.Location).ok
         THEN [return |-> TRUE, ret |-> ResolveFailure(ErrParseLocation)]
         ELSE [return |-> FALSE,
               currentURL |-> String(ResolveReference(Parse(url), Parse(resp.Location)))]
    ELSE IF resp.StatusCode >= 200 /\ resp.StatusCode < 300
    THEN [return |-> TRUE, ret |-> Resolved(url)]
    ELSE [return |-> TRUE, ret |-> ResolveFailure(ErrStatus)]

\* A loop body that takes every status that is not a redirect for a success.
handleResponseAcceptingAnyStatus(url, i, resp) ==
    IF resp.failed THEN [return |-> TRUE, ret |-> ResolveFailure(ErrRequest)]
    ELSE IF resp.StatusCode >= 300 /\ resp.StatusCode < 400
    THEN IF resp.Location = <<>>
         THEN [return |-> TRUE, ret |-> ResolveFailure(ErrNoLocation)]
         ELSE IF ~Parse(resp.Location).ok
         THEN [return |-> TRUE, ret |-> ResolveFailure(ErrParseLocation)]
         ELSE IF i = maxRedirects - 1
         THEN [return |-> TRUE, ret |-> ResolveFailure(ErrTooManyRedirects)]
         ELSE [return |-> FALSE,
               currentURL |-> String(ResolveReference(Parse(url), Parse(resp.Location)))]
    ELSE [return |-> TRUE, ret |-> Resolved(url)]

\* What the loop body does with the response of hop i: return, or go on with the next URL.
handleResponse(url, i, resp) ==
    IF resp.failed THEN [return |-> TRUE, ret |-> ResolveFailure(ErrRequest)]
    ELSE IF resp.StatusCode >= 300 /\ resp.StatusCode < 400
    THEN IF resp.Location = <<>>
         THEN [return |-> TRUE, ret |-> ResolveFailure(ErrNoLocation)]
         ELSE IF ~Parse(resp.Location).ok
         THEN [return |-> TRUE, ret |-> ResolveFailure(ErrParseLocation)]
         ELSE IF i = maxRedirects - 1
         THEN [return |-> TRUE, ret |-> ResolveFailure(ErrTooManyRedirects)]
         ELSE [return |-> FALSE,
               currentURL |-> String(ResolveReference(Parse(url), Parse(resp.Location)))]
    ELSE IF resp.StatusCode >= 200 /\ resp.StatusCode < 300
    THEN [return |-> TRUE, ret |-> Resolved(url)]
    ELSE [return |-> TRUE, ret |-> ResolveFailure(ErrStatus)]

\* One run of the loop body for hop i: the requests issued, and the outcome.  headAnswer and
\* getAnswer are what the network answers to the HEAD and, if it is sent, to the GET.
loopIteration(url, i, headAnswer, getAnswer) ==
    LET parsedURL == Parse(url)
        head      == Do(parsedURL, headAnswer)
        get       == Do(parsedURL, getAnswer)
        resp      == IF fallsBackToGET(i, head.failed) THEN get ELSE head
    IN  IF ~parsedURL.ok
        THEN [requests |-> <<>>,
              step     |-> [return |-> TRUE, ret |-> ResolveFailure(ErrCreateRequest)]]
        ELSE [requests |-> requestsOfHop(url, i, head, get),
              step     |-> handleResponse(url, i, resp)]

\* The network's answer to the n-th request of a resolution, when the answers are given as a
\* list: a request past the end of the list gets no answer.
AnswerAt(answers, n) == IF n <= Len(answers) THEN answers[n] ELSE TransportFailure

\* ResolveShortenedURL(shortURL) on a network that answers the requests, in order, with
\* answers: the loop from hop i on, n requests having been issued.
RECURSIVE resolveLoop(_, _, _, _)
resolveLoop(url, i, answers, n) ==
    IF i >= maxRedirects THEN ResolveFailure(ErrUnexpectedState)
    ELSE LET it == loopIteration(url, i, AnswerAt(answers, n + 1),
                                 AnswerAt(answers, n + 2))
         IN  IF it.step.return THEN it.step.ret
             ELSE resolveLoop(it.step.currentURL, i + 1, answers, n + Len(it.requests))

ResolveShortenedURL(url, answers) == resolveLoop(url, 0, answers, 0)

\* The resolver before it is called.
ResolverIdle ==
    /\ rpc = "idle"
    /\ shortURL = <<>>
    /\ currentURL = <<>>
    /\ hop = 0
    /\ requests = <<>>
    /\ resolveResult = ResolveFailure(NoError)

\* A loop that does not count its hops.
ResolveStepNotCounting ==
    /\ rpc = "loop"
    /\ \E headAnswer \in Responses :
       \E getAnswer \in IF fallsBackToGET(0, Do(Parse(currentURL), headAnswer).failed)
                        THEN Responses ELSE {TransportFailure} :
           LET it == loopIteration(currentURL, 0, headAnswer, getAnswer)
           IN  /\ requests' = requests \o it.requests
               /\ IF it.step.return
                  THEN /\ rpc' = "done"
                       /\ resolveResult' = it.step.ret
                       /\ UNCHANGED <<currentURL, hop>>
                  ELSE /\ currentURL' = it.step.currentURL
                       /\ UNCHANGED <<hop, rpc, resolveResult>>
    /\ UNCHANGED <<shortURL, matcherVars, rootVars, configVars>>

\* One step of ResolveShortenedURL: the body of the loop for the current hop, with the
\* network's answers to its requests.
ResolveStep ==
    /\ rpc = "loop"
    /\ IF hop >= maxRedirects
       THEN /\ rpc' = "done"
            /\ resolveResult' = ResolveFailure(ErrUnexpectedState)
            /\ UNCHANGED <<currentURL, hop, requests>>
       ELSE \E headAnswer \in Responses :
            \E getAnswer \in IF fallsBackToGET(hop, Do(Parse(currentURL), headAnswer).failed)
                             THEN Responses ELSE {TransportFailure} :
                LET it == loopIteration(currentURL, hop, headAnswer, getAnswer)
                IN  /\ requests' = requests \o it.requests
                    /\ IF it.step.return
                       THEN /\ rpc' = "done"
                            /\ resolveResult' = it.step.ret
                            /\ UNCHANGED <<currentURL, hop>>
                       ELSE /\ currentURL' = it.step.currentURL
                            /\ hop' = hop + 1
                            /\ UNCHANGED <<rpc, resolveResult>>
    /\ UNCHANGED <<shortURL, matcherVars, rootVars, configVars>>

(***************************************************************************)
(* package urlhandler: ProcessURL.                                         *)
(***************************************************************************)
ErrProcessParse == "failed to parse input URL"

\* config.ShortenerService.
Shortener(domain, isSafelink) == [Domain |-> domain, IsSafelink |-> isSafelink]

\* The first entry of the list whose Domain equals the hostname: <<>> for none, <<s>> for &s.
firstWithDomain(list, hostname) ==
    IF \E k \in 1..Len(list) : list[k].Domain = hostname
    THEN <<list[CHOOSE k \in 1..Len(list) :
                  /\ list[k].Domain = hostname
                  /\ \A j \in 1..(k - 1) : list[j].Domain # hostname]>>
    ELSE <<>>

\* A lookup that prefers the built-in list.
matchedShortenerBuiltinFirst(manual, builtin, hostname) ==
    IF firstWithDomain(builtin, hostname) # <<>>
    THEN firstWithDomain(builtin, hostname)
    ELSE firstWithDomain(manual, hostname)

\* matchedShortener after the two loops: the manual list first, then the built-in list.
matchedShortener(manual, builtin, hostname) ==
    IF firstWithDomain(manual, hostname) # <<>>
    THEN firstWithDomain(manual, hostname)
    ELSE firstWithDomain(builtin, hostname)

\* What ProcessURL returns.
Processed(urlForMatching, originalURL, isSafelink, err) ==
    [urlForMatching |-> urlForMatching, originalURL |-> originalURL,
     isSafelink |-> isSafelink, err |-> err]

\* A return that gives the resolved URL as the original one.
afterResolveLosingOriginal(inputURL_, shortener, resolve) ==
    IF resolve.err # NoError
    THEN Processed(inputURL_, inputURL_, FALSE, NoError)
    ELSE Processed(resolve.url, resolve.url, shortener.IsSafelink, NoError)

\* A return that hands the resolver's error to the caller.
afterResolveAborting(inputURL_, shortener, resolve) ==
    IF resolve.err # NoError
    THEN Processed(inputURL_, inputURL_, FALSE, resolve.err)
    ELSE Processed(resolve.url, inputURL_, shortener.IsSafelink, NoError)

\* A return that drops the entry's flag.
afterResolveDroppingFlag(inputURL_, shortener, resolve) ==
    IF resolve.err # NoError
    THEN Processed(inputURL_, inputURL_, FALSE, NoError)
    ELSE Processed(resolve.url, inputURL_, FALSE, NoError)

\* The return of ProcessURL once the matched shortener's URL went through the resolver.
afterResolve(inputURL_, shortener, resolve) ==
    IF resolve.err # NoError
    THEN Processed(inputURL_, inputURL_, FALSE, NoError)
    ELSE Processed(resolve.url, inputURL_, shortener.IsSafelink, NoError)

\* Whether ProcessURL looks the hostname up in the shortener lists.
eligibleScheme(scheme) == scheme = SchemeHTTP \/ scheme = SchemeHTTPS

\* The shortener ProcessURL resolves the input for: <<>> when it does not call the resolver.
shortenerFor(c, inputURL_) ==
    LET parsedURL == Parse(inputURL_)
    IN  IF parsedURL.ok /\ eligibleScheme(parsedURL.Scheme)
        THEN matchedShortener(c.ManualShorteners, c.Shorteners, Hostname(parsedURL))
        ELSE <<>>

\* ProcessURL(cfg, inputURL) on a network that answers the resolver's requests with answers.
ProcessURL(c, inputURL_, answers) ==
    LET matched == shortenerFor(c, inputURL_)
    IN  IF ~Parse(inputURL_).ok
        THEN Processed(inputURL_, inputURL_, FALSE, ErrProcessParse)
        ELSE IF matched # <<>>
        THEN afterResolve(inputURL_, matched[1], ResolveShortenedURL(inputURL_, answers))
        ELSE Processed(inputURL_, inputURL_, FALSE, NoError)

(***************************************************************************)
(* package launcher: Launch.  The strings Launch takes apart (the          *)
(* browser's executable and argument templates) are sequences of pieces,   *)
(* cut so that what the code looks for ("%s", " ", "--profile-directory")  *)
(* is a piece of its own; a profile directory is one piece.                *)
(***************************************************************************)
\* config.Browser.
Browser(browserID, name, executable, profileArg, incognitoArg) ==
    [BrowserID |-> browserID, Name |-> name, Executable |-> executable,
     ProfileArg |-> profileArg, IncognitoArg |-> incognitoArg]

BrowserChrome ==
    Browser("chrome", "Google Chrome", <<"/usr/bin/google-chrome">>,
            <<"--profile-directory", "=", "%s">>, <<"--incognito">>)

BrowserFirefox ==
    Browser("firefox", "Firefox", <<"flatpak", " ", "run", " ", "org.mozilla.firefox">>,
            <<"-P", " ", "%s", " ", "%s">>, <<"--private-window">>)

\* A browser with a profile flag that takes no directory and no incognito argument.
BrowserEpiphany == Browser("epiphany", "Epiphany", <<"epiphany">>, <<"--use-this-profile">>, <<>>)

\* A browser without profile argument.
BrowserEcho == Browser("test", "Test Browser", <<"/bin/echo">>, <<>>, <<"--incognito">>)

\* (c *Config) FindBrowserByID: whether the lookup returns a browser.
FindBrowserByID(browsers, id) == \E k \in 1..Len(browsers) : browsers[k].BrowserID = id

\* The browser of the list with this id (FindBrowserByID's first result).
browserByID(browsers, id) ==
    browsers[CHOOSE k \in 1..Len(browsers) :
                 browsers[k].BrowserID = id /\ \A j \in 1..(k - 1) : browsers[j].BrowserID # id]

\* The profile of the list with this id (FindProfileByID's first result).
profileByID(profiles, id) ==
    profiles[CHOOSE k \in 1..Len(profiles) :
                 profiles[k].ID = id /\ \A j \in 1..(k - 1) : profiles[j].ID # id]

\* Whether Launch returns nil: the profile and its browser are found and cmd.Start succeeds.
launchSucceeds(c, profileID, startOK) ==
    /\ FindProfileByID(c.Profiles, profileID)
    /\ FindBrowserByID(c.Browsers, profileByID(c.Profiles, profileID).BrowserID)
    /\ startOK

\* strings.Contains, for a piece.
Contains(s, piece) == \E k \in 1..Len(s) : s[k] = piece

\* strings.Replace(s, old, new, 1), for a piece: the first occurrence only.
ReplaceFirst(s, old, new) ==
    IF ~Contains(s, old) THEN s
    ELSE LET k == CHOOSE i \in 1..Len(s) : s[i] = old /\ \A j \in 1..(i - 1) : s[j] # old
         IN  SubSeq(s, 1, k - 1) \o <<new>> \o SubSeq(s, k + 1, Len(s))

\* strings.Split(s, sep), for a separator that is a piece.
RECURSIVE Split(_, _)
Split(s, sep) ==
    IF ~Contains(s, sep) THEN <<s>>
    ELSE LET k == CHOOSE i \in 1..Len(s) : s[i] = sep /\ \A j \in 1..(i - 1) : s[j] # sep
         IN  <<SubSeq(s, 1, k - 1)>> \o Split(SubSeq(s, k + 1, Len(s)), sep)

\* What Launch reads from its environment: runtime.GOOS and XDG_SESSION_TYPE.
Environment(goos, sessionType) == [GOOS |-> goos, XDG_SESSION_TYPE |-> sessionType]

Environments ==
    {Environment("linux", "wayland"), Environment("linux", "x11"), Environment("darwin", "")}

ErrCannotLaunch == "cannot launch profile"

ErrCannotFindBrowser == "cannot find browser"

ErrStart == "failed to start browser process"

\* The profile argument of Launch.
profileArgs(browser, profile) ==
    IF browser.ProfileArg # <<>> /\ profile.ProfileDir # ""
    THEN IF Contains(browser.ProfileArg, "%s")
         THEN <<ReplaceFirst(browser.ProfileArg, "%s", profile.ProfileDir)>>
         ELSE <<browser.ProfileArg>>
    ELSE <<>>

\* The incognito argument of Launch.
incognitoArgs(browser, incognito) ==
    IF incognito /\ browser.IncognitoArg # <<>> THEN <<browser.IncognitoArg>> ELSE <<>>

\* The Wayland flags of Launch, for a Chromium-based browser on Linux.
waylandArgs(browser, env) ==
    IF /\ env.GOOS = "linux" /\ env.XDG_SESSION_TYPE = "wayland"
       /\ Contains(browser.ProfileArg, "--profile-directory")
    THEN <<(<<"--enable-features=UseOzonePlatform">>), (<<"--ozone-platform=wayland">>)>>
    ELSE <<>>

\* The args with the target URL first.
launchArgsUrlFirst(browser, profile, targetURL, incognito, env) ==
    <<targetURL>> \o profileArgs(browser, profile) \o incognitoArgs(browser, incognito)
        \o waylandArgs(browser, env)

\* The args Launch appends to the command.
launchArgs(browser, profile, targetURL, incognito, env) ==
    profileArgs(browser, profile) \o incognitoArgs(browser, incognito)
        \o waylandArgs(browser, env) \o <<targetURL>>

\* cmd.Args after exec.Command: the executable, or the words of a "flatpak run " command.
commandArgs(browser) ==
    IF HasPrefix(browser.Executable, <<"flatpak", " ", "run", " ">>)
    THEN Split(browser.Executable, " ")
    ELSE <<browser.Executable>>

\* A call of Launch: its arguments, the error it returned, and the process cmd.Start
\* started, if any, with its argument vector.
Launched(profileID, targetURL, incognito, err, started, argv) ==
    [ProfileID |-> profileID, URL |-> targetURL, Incognito |-> incognito, err |-> err,
     started |-> started, Args |-> argv]

\* Launch as it would be without its two lookups failing.
LaunchUnvalidated(c, profileID, targetURL, incognito, env, startOK) ==
    Launched(profileID, targetURL, incognito, IF startOK THEN NoError ELSE ErrStart, startOK,
             <<(<<"/bin/echo">>), targetURL>>)

\* Launch(cfg, profileID, targetURL, incognito) in an environment in which cmd.Start
\* succeeds or fails.
Launch(c, profileID, targetURL, incognito, env, startOK) ==
    IF ~FindProfileByID(c.Profiles, profileID)
    THEN Launched(profileID, targetURL, incognito, ErrCannotLaunch, FALSE, <<>>)
    ELSE LET profile == profileByID(c.Profiles, profileID)
         IN  IF ~FindBrowserByID(c.Browsers, profile.BrowserID)
             THEN Launched(profileID, targetURL, incognito, ErrCannotFindBrowser, FALSE, <<>>)
             ELSE LET browser == browserByID(c.Browsers, profile.BrowserID)
                      argv    == commandArgs(browser)
                                    \o launchArgs(browser, profile, targetURL, incognito, env)
                  IN  IF startOK
                      THEN Launched(profileID, targetURL, incognito, NoError, TRUE, argv)
                      ELSE Launched(profileID, targetURL, incognito, ErrStart, FALSE, argv)

(***************************************************************************)
(* package cli: runRootCmd.                                                *)
(***************************************************************************)
\* ProcessURL has not returned.
NotProcessed == Processed(<<>>, <<>>, FALSE, NoError)

\* The root command before it runs.
RootIdle ==
    /\ rootPc = "idle"
    /\ args = <<>>
    /\ proc = NotProcessed
    /\ urlToLaunch = <<>>
    /\ launched = <<>>
    /\ exitCode = -1

\* A launch target that is the URL for matching whatever the flag.
launchTargetAlwaysResolved(p) == p.urlForMatching

\* The URL handed to Launch: the original one for a safelink, else the one for matching.
launchTarget(p) == IF p.isSafelink THEN p.originalURL ELSE p.urlForMatching

\* The URL handed to ApplyRules.
matchTarget(p) == p.urlForMatching

\* The lists of answers the network of the root command may give to the resolver's requests.
MaxAnswers == 2

RootAnswers ==
    {TransportFailure, Response(200, <<>>), Response(301, UrlExample), Response(302, LocNext),
     Response(301, <<>>), Response(404, <<>>)}

\* Five redirects in a row.
FiveRedirects == [k \in 1..maxRedirects |-> Response(302, LocNext)]

NetAnswers == UNION {[1..n -> RootAnswers] : n \in 0..MaxAnswers} \cup {FiveRedirects}

\* runRootCmd up to the return of ProcessURL: no argument prints the help and exits 0, an
\* error of ProcessURL exits 1, otherwise the URLs for matching and for launching are set.
RootProcessURL ==
    /\ rootPc = "process"
    /\ IF args = <<>>
       THEN /\ exitCode' = 0
            /\ rootPc' = "exited"
            /\ UNCHANGED <<proc, urlToLaunch, inputURL, pc, rpc, shortURL, resolveResult>>
       ELSE \E answers \in NetAnswers :
               LET p       == ProcessURL(cfg, args[1], answers)
                   matched == shortenerFor(cfg, args[1])
               IN  /\ proc' = p
                   /\ IF matched # <<>>
                      THEN /\ rpc' = "done"
                           /\ shortURL' = args[1]
                           /\ resolveResult' = ResolveShortenedURL(args[1], answers)
                      ELSE UNCHANGED <<rpc, shortURL, resolveResult>>
                   /\ IF p.err # NoError
                      THEN /\ exitCode' = 1
                           /\ rootPc' = "exited"
                           /\ UNCHANGED <<urlToLaunch, inputURL, pc>>
                      ELSE /\ urlToLaunch' = launchTarget(p)
                           /\ inputURL' = matchTarget(p)
                           /\ pc' = "start"
                           /\ rootPc' = "rules"
                           /\ UNCHANGED exitCode
    /\ UNCHANGED <<cfg, mem, result, args, launched, currentURL, hop, requests, configVars>>

\* A root command that launches although ApplyRules returned an error.
RootRulesFailedLaunching ==
    /\ rootPc = "rules" /\ pc = "returned"
    /\ result.err # NoError
    /\ launched' = <<Launched(result.ProfileID, urlToLaunch, result.Incognito, NoError, TRUE, <<>>)>>
    /\ exitCode' = 0
    /\ rootPc' = "exited"
    /\ UNCHANGED <<matcherVars, resolverVars, args, proc, urlToLaunch, configVars>>

\* runRootCmd after ApplyRules returned an error: exit 1.
RootRulesFailed ==
    /\ rootPc = "rules" /\ pc = "returned"
    /\ result.err # NoError
    /\ exitCode' = 1
    /\ rootPc' = "exited"
    /\ UNCHANGED <<matcherVars, resolverVars, args, proc, urlToLaunch, launched, configVars>>

\* runRootCmd after ApplyRules returned a result: Launch, and exit 1 if it fails.
RootLaunch ==
    /\ rootPc = "rules" /\ pc = "returned"
    /\ result.err = NoError
    /\ \E env \in Environments, startOK \in BOOLEAN :
          LET call == Launch(cfg, result.ProfileID, urlToLaunch, result.Incognito, env, startOK)
          IN  /\ launched' = <<call>>
              /\ exitCode' = IF call.err = NoError THEN 0 ELSE 1
    /\ rootPc' = "exited"
    /\ UNCHANGED <<matcherVars, resolverVars, args, proc, urlToLaunch, configVars>>

(***************************************************************************)
(* Specification: a configuration and a URL, then the call.                *)
(***************************************************************************)
Init ==
    /\ inputURL \in InputURLs
    /\ \/ /\ cfg = NilConfig
          /\ mem = [a \in {CfgRulesArray, NewArray} |-> <<>>]
       \/ \E profiles \in ProfileLists, id \in DefaultProfileIDs, rules \in RuleLists :
             /\ cfg = [DefaultProfileID |-> id, Profiles |-> profiles, Rules |-> CfgRulesArray]
             /\ mem = [a \in {CfgRulesArray, NewArray} |-> IF a = CfgRulesArray THEN rules ELSE <<>>]
    /\ pc = "start"
    /\ result = Failure(NoError)
    /\ ResolverIdle
    /\ RootIdle
    /\ ConfigIdle

Next == ApplyRules

Spec == Init /\ [][Next]_vars

(***************************************************************************)
(* Properties of ApplyRules.                                               *)
(***************************************************************************)
\* The call returned from a non-nil configuration and a URL that parsed.
Scanned == pc = "returned" /\ cfg # NilConfig /\ parseInput(inputURL).ok

\* The caller's rule list, config.rules.
callerRules == mem[CfgRulesArray]

\* The private, sorted copy of the rule list.
rulesToSort == mem[NewArray]

\* The id names a profile of config.profiles.
HasProfile(id) == id \in {cfg.Profiles[i].ID : i \in 1..Len(cfg.Profiles)}

\* The rule compiles and matches the input URL.
Matches(r) ==
    /\ Compiles(r.Pattern)
    /\ MatchString(r.Pattern, getMatchString(parseInput(inputURL), r.Scope))

\* Rule a of the list matches, its profile exists, and every other matching rule of the list
\* has a strictly shorter pattern; rule b is one of those.
LongestMatch(rules, a, b) ==
    /\ a # b
    /\ Matches(rules[a]) /\ Matches(rules[b])
    /\ Len(rules[a].Pattern) > Len(rules[b].Pattern)
    /\ \A k \in (1..Len(rules)) \ {a} :
          Matches(rules[k]) => Len(rules[k].Pattern) < Len(rules[a].Pattern)
    /\ HasProfile(rules[a].ProfileID)

\* C1: when two rules A and B of the configuration both compile and match the URL, A's pattern
\* is longer than B's and than that of every other matching rule, and A's profile exists,
\* ApplyRules returns rule A with A's profile id and incognito flag, wherever A and B stand in
\* config.rules.
C1_LongerPatternWins ==
    Scanned =>
        \A a, b \in 1..Len(callerRules) :
            LongestMatch(callerRules, a, b) =>
                result = MatchResult(<<callerRules[a]>>, callerRules[a].ProfileID,
                                     callerRules[a].Incognito)

\* C1 witness: the longer rule stands after the shorter one in config.rules and is returned.
C1_Witness ==
    /\ Scanned
    /\ \E a, b \in 1..Len(callerRules) :
          /\ b < a
          /\ LongestMatch(callerRules, a, b)
          /\ result.Rule = <<callerRules[a]>>

\* C2: the rules are tried in descending order of pattern length, and when the first rule of
\* that order that compiles and matches names a profile that config.profiles does not hold,
\* ApplyRules returns the error of the missing profile, with no rule and no profile: not the
\* default profile, and not a later matching rule.
C2_MissingProfileIsAnError ==
    Scanned =>
        /\ \A i, j \in 1..Len(rulesToSort) :
               i < j => Len(rulesToSort[i].Pattern) >= Len(rulesToSort[j].Pattern)
        /\ \A i \in 1..Len(rulesToSort) :
               ( /\ Matches(rulesToSort[i])
                 /\ \A j \in 1..(i - 1) : ~Matches(rulesToSort[j])
                 /\ ~HasProfile(rulesToSort[i].ProfileID) )
                   => result = Failure(ErrRuleProfile)

\* C2 witness: the call failed on a missing profile although the default profile exists and a
\* later matching rule names an existing profile.
C2_Witness ==
    /\ Scanned
    /\ result = Failure(ErrRuleProfile)
    /\ HasProfile(cfg.DefaultProfileID)
    /\ \E i, j \in 1..Len(rulesToSort) :
          /\ i < j
          /\ Matches(rulesToSort[i]) /\ ~HasProfile(rulesToSort[i].ProfileID)
          /\ Matches(rulesToSort[j]) /\ HasProfile(rulesToSort[j].ProfileID)

\* The list without its element i.
RemoveAt(s, i) == SubSeq(s, 1, i - 1) \o SubSeq(s, i + 1, Len(s))

NoRuleMatches == \A i \in 1..Len(callerRules) : ~Matches(callerRules[i])

\* C4: when no rule matches the URL (an empty rule list included) and default_profile_id is
\* non-empty and names a profile of config.profiles, ApplyRules returns no rule, the default
\* profile id and incognito = false, with no error.
C4_DefaultProfileFallback ==
    (Scanned /\ NoRuleMatches /\ cfg.DefaultProfileID # "" /\ HasProfile(cfg.DefaultProfileID))
        => result = MatchResult(<<>>, cfg.DefaultProfileID, FALSE)

\* C4 witness: rules were configured, none matched, and the default profile, which is not the
\* first profile of the list, was returned.
C4_Witness ==
    /\ Scanned /\ NoRuleMatches
    /\ Len(callerRules) > 0
    /\ HasProfile(cfg.DefaultProfileID) /\ cfg.DefaultProfileID # cfg.Profiles[1].ID
    /\ result = MatchResult(<<>>, cfg.DefaultProfileID, FALSE)

\* C5: when no rule matches the URL and default_profile_id is empty, ApplyRules fails with
\* "no matching rule found and no default profile is configured" and returns no profile,
\* whatever profiles the configuration holds.
C5_NoDefaultIsAnError ==
    (Scanned /\ NoRuleMatches /\ cfg.DefaultProfileID = "")
        => result = Failure(ErrNoDefault)

\* C5 witness: the call failed for want of a default although profiles are configured.
C5_Witness ==
    /\ Scanned /\ NoRuleMatches
    /\ cfg.DefaultProfileID = "" /\ Len(cfg.Profiles) > 0
    /\ result.err = ErrNoDefault /\ result.ProfileID = ""

\* C6: every successful return of ApplyRules carries the id of a profile of config.profiles,
\* on the rule path and on the default path, and a non-empty default_profile_id that names no
\* profile makes the no-match path fail with "default profile not found".
C6_ReturnedProfileExists ==
    /\ (pc = "returned" /\ result.err = NoError) => HasProfile(result.ProfileID)
    /\ (Scanned /\ NoRuleMatches /\ cfg.DefaultProfileID # ""
            /\ ~HasProfile(cfg.DefaultProfileID))
          => result = Failure(ErrDefaultNotFound)

\* C6 witness: no rule matched and the configured default names no profile of a non-empty
\* profile list.
C6_Witness ==
    /\ Scanned /\ NoRuleMatches
    /\ cfg.DefaultProfileID # "" /\ ~HasProfile(cfg.DefaultProfileID)
    /\ Len(cfg.Profiles) > 0
    /\ result = Failure(ErrDefaultNotFound)

\* The call returned for this input URL from a configuration whose only rule is r and whose
\* profiles include r's.
OnlyRule(url, r) ==
    /\ Scanned
    /\ inputURL = url
    /\ callerRules = <<r>>
    /\ HasProfile(r.ProfileID)

\* The result of a call in which rule r fired.
Fired(r) == MatchResult(<<r>>, r.ProfileID, r.Incognito)

\* The strings C7 expects for the Domain and Path scopes.
\* "work.example.com"
HostWork ==
    <<"w", "o", "r", "k", ".", "e", "x", "a", "m", "p", "l", "e", ".", "c", "o", "m">>

\* "/path"
PathPath ==
    <<"/", "p", "a", "t", "h">>

\* C7: the string a rule is tested against is fixed by its scope: the hostname alone for
\* Domain, the path alone for Path, scheme://host+path and then ?query for Url.  For
\* https://work.example.com/path?x=1 these are work.example.com, /path and the URL itself, so
\* that the Domain rule ^work\.example\.com$, the Path rule ^/path$ and the Url rule
\* ^https://work\.example\.com/path fire, and the Url rule ending in /path$ does not.
C7_ScopeSelectsMatchString ==
    /\ inputURL = UrlWorkPathQuery =>
          /\ getMatchString(parseInput(inputURL), ScopeDomain) = HostWork
          /\ getMatchString(parseInput(inputURL), ScopePath) = PathPath
          /\ getMatchString(parseInput(inputURL), ScopeURL) = UrlWorkPathQuery
    /\ OnlyRule(UrlWorkPathQuery, RuleHost) => result = Fired(RuleHost)
    /\ OnlyRule(UrlWorkPathQuery, RulePath) => result = Fired(RulePath)
    /\ OnlyRule(UrlWorkPathQuery, RuleUrlPrefix) => result = Fired(RuleUrlPrefix)
    /\ OnlyRule(UrlWorkPathQuery, RuleUrlEnd) => result.Rule = <<>>

\* C7 witness: for https://work.example.com/path?x=1 the Url rule anchored after /path was
\* tried first and did not match, and the unanchored Url rule fired.
C7_Witness ==
    /\ Scanned
    /\ inputURL = UrlWorkPathQuery
    /\ callerRules = <<RuleUrlPrefix, RuleUrlEnd>>
    /\ rulesToSort = <<RuleUrlEnd, RuleUrlPrefix>>
    /\ result = Fired(RuleUrlPrefix)

\* C8: the only rule has scope domain and the pattern ^https://work\.example\.com, the URL is
\* https://work.example.com/path, and the profiles are default-profile and work-profile with
\* default-profile the default: ApplyRules returns that rule with work-profile and
\* incognito = false, not the default profile.
C8_DomainRuleWithSchemeFires ==
    ( /\ OnlyRule(UrlWorkPath, RuleWorkDomain)
      /\ cfg.Profiles = <<ProfileDefault, ProfileWork>>
      /\ cfg.DefaultProfileID = "default-profile" )
        => result = MatchResult(<<RuleWorkDomain>>, "work-profile", FALSE)

\* C10: ApplyRules leaves the caller's configuration as it was on every path: the elements
\* of config.rules and their order, the profiles and default_profile_id; only the private
\* copy is sorted.
C10_ConfigUnchanged ==
    [][cfg' = cfg /\ mem'[CfgRulesArray] = mem[CfgRulesArray]]_vars

\* C10 witness: the call sorted its private copy into an order other than that of config.rules.
C10_Witness ==
    /\ Scanned
    /\ result.err = NoError
    /\ rulesToSort # callerRules
    /\ Len(rulesToSort) = Len(callerRules)

\* "https://safelinks.protection.outlook.com/x"
\* "evil.example"
DomainEvil ==
    <<"e", "v", "i", "l", ".", "e", "x", "a", "m", "p", "l", "e">>

\* "my.short"
DomainMine ==
    <<"m", "y", ".", "s", "h", "o", "r", "t">>

\* "go.corp"
DomainGo ==
    <<"g", "o", ".", "c", "o", "r", "p">>

\* "nodots"
DomainBad ==
    <<"n", "o", "d", "o", "t", "s">>


UrlSafelink ==
    <<"h", "t", "t", "p", "s", ":", "/", "/", "s", "a", "f", "e", "l", "i", "n", "k", "s", ".",
      "p", "r", "o", "t", "e", "c", "t", "i", "o", "n", ".", "o", "u", "t", "l", "o", "o", "k",
      ".", "c", "o", "m", "/", "x">>

\* "safelinks.protection.outlook.com"
DomainSafelinks ==
    <<"s", "a", "f", "e", "l", "i", "n", "k", "s", ".", "p", "r", "o", "t", "e", "c", "t", "i",
      "o", "n", ".", "o", "u", "t", "l", "o", "o", "k", ".", "c", "o", "m">>

\* "bit\.ly"
PatShortHost ==
    <<"b", "i", "t", "\\", ".", "l", "y">>

(***************************************************************************)
(* Specification of the resolver: a URL, then the loop of                  *)
(* ResolveShortenedURL against a network that answers each request in any  *)
(* of the ways of Responses.                                               *)
(***************************************************************************)
ShortURLs == {UrlShort, UrlShortPlain, UrlNotAUrl, UrlNoScheme}

\* The matcher while only the resolver runs.
MatcherIdle ==
    /\ cfg = NilConfig
    /\ mem = [a \in {CfgRulesArray, NewArray} |-> <<>>]
    /\ inputURL = <<>>
    /\ pc = "idle"
    /\ result = Failure(NoError)

ResolveInit ==
    /\ MatcherIdle
    /\ RootIdle
    /\ ConfigIdle
    /\ shortURL \in ShortURLs
    /\ currentURL = shortURL
    /\ hop = 0
    /\ requests = <<>>
    /\ rpc = "loop"
    /\ resolveResult = ResolveFailure(NoError)

ResolveNext == ResolveStep

ResolveSpec == ResolveInit /\ [][ResolveNext]_vars

(***************************************************************************)
(* Specification of the root command: a configuration and the arguments,   *)
(* then ProcessURL, ApplyRules and Launch.                                 *)
(***************************************************************************)
RuleShortHost == Rule("Short Host", PatShortHost, "", "work-profile", TRUE)

RulePersonal == Rule("Personal", PatExample, "", "personal-profile", TRUE)

RootRuleLists == {<<>>, <<RuleGenericDomain, RuleShortHost>>, <<RulePersonal>>}

RootProfileLists == {<<ProfileDefault>>, <<ProfileDefault, ProfileWork, ProfilePersonal>>}

RootDefaultProfileIDs == {"", "default-profile"}

ManualShortenerLists ==
    {<<>>, <<Shortener(DomainBitly, TRUE)>>, <<Shortener(DomainBitly, FALSE)>>,
     <<Shortener(DomainTco, TRUE), Shortener(DomainTco, FALSE)>>,
     <<Shortener(DomainSafelinks, FALSE)>>}

\* The built-in list every loaded configuration has: three of the entries of DefaultConfig,
\* in its order.
DefaultShorteners ==
    <<Shortener(DomainTco, FALSE), Shortener(DomainBitly, FALSE),
      Shortener(DomainSafelinks, TRUE)>>

RootArgs ==
    {<<>>} \cup
    {<<u>> : u \in {UrlShort, UrlShortPlain, UrlSafelink, UrlSubdomain, UrlSuperstring, UrlFtpShort,
                    UrlNoScheme, UrlNotAUrl, UrlExample, <<>>}}

RootInit ==
    /\ \E profiles \in RootProfileLists, id \in RootDefaultProfileIDs, rules \in RootRuleLists,
          manual \in ManualShortenerLists :
            /\ cfg = [DefaultProfileID |-> id, Profiles |-> profiles, Rules |-> CfgRulesArray,
                      Browsers |-> <<BrowserChrome>>, Shorteners |-> DefaultShorteners,
                      ManualShorteners |-> manual]
            /\ mem = [a \in {CfgRulesArray, NewArray} |-> IF a = CfgRulesArray THEN rules ELSE <<>>]
    /\ inputURL = <<>>
    /\ pc = "idle"
    /\ result = Failure(NoError)
    /\ ResolverIdle
    /\ args \in RootArgs
    /\ rootPc = "process"
    /\ proc = NotProcessed
    /\ urlToLaunch = <<>>
    /\ launched = <<>>
    /\ exitCode = -1
    /\ ConfigIdle

RootNext == RootProcessURL \/ ApplyRules \/ RootRulesFailed \/ RootLaunch

RootSpec == RootInit /\ [][RootNext]_vars

(***************************************************************************)
(* Launch on its own: any caller, any configuration.                       *)
(***************************************************************************)
\* A profile without directory.
ProfilePlain == [ID |-> "plain-profile", Name |-> "Plain", BrowserID |-> "chrome", ProfileDir |-> ""]

\* The profile of TestLaunch.
ProfileTest == [ID |-> "test-profile", Name |-> "Test Profile", BrowserID |-> "test", ProfileDir |-> ""]

ProfileEpiphany ==
    [ID |-> "web-profile", Name |-> "Web", BrowserID |-> "epiphany", ProfileDir |-> "web"]

LaunchProfiles == <<ProfileDefault, ProfilePersonal, ProfilePlain, ProfileTest, ProfileEpiphany>>

LaunchBrowserLists ==
    {<<BrowserChrome, BrowserFirefox, BrowserEpiphany, BrowserEcho>>, <<BrowserChrome>>, <<>>}

LaunchProfileIDs ==
    {"default-profile", "personal-profile", "plain-profile", "test-profile", "web-profile",
     "nonexistent-profile"}

LaunchURLs == {UrlExample, UrlWorkPath}

\* A caller of Launch: Launch runs in some environment, and cmd.Start succeeds or fails.
LaunchCall ==
    /\ rootPc = "launch"
    /\ \E env \in Environments, startOK \in BOOLEAN :
          LET call == Launch(cfg, result.ProfileID, urlToLaunch, result.Incognito, env, startOK)
          IN  /\ launched' = <<call>>
              /\ exitCode' = IF call.err = NoError THEN 0 ELSE 1
    /\ rootPc' = "exited"
    /\ UNCHANGED <<matcherVars, resolverVars, args, proc, urlToLaunch, configVars>>

LaunchInit ==
    /\ \E browsers \in LaunchBrowserLists :
          cfg = [DefaultProfileID |-> "default-profile", Profiles |-> LaunchProfiles,
                 Rules |-> CfgRulesArray, Browsers |-> browsers,
                 Shorteners |-> DefaultShorteners, ManualShorteners |-> <<>>]
    /\ mem = [a \in {CfgRulesArray, NewArray} |-> <<>>]
    /\ inputURL = <<>>
    /\ pc = "idle"
    /\ \E profileID \in LaunchProfileIDs, incognito \in BOOLEAN :
          result = MatchResult(<<>>, profileID, incognito)
    /\ ResolverIdle
    /\ args = <<>>
    /\ rootPc = "launch"
    /\ proc = NotProcessed
    /\ urlToLaunch \in LaunchURLs
    /\ launched = <<>>
    /\ exitCode = -1
    /\ ConfigIdle

LaunchNext == LaunchCall

LaunchSpec == LaunchInit /\ [][LaunchNext]_vars

(***************************************************************************)
(* package config: the configuration file, LoadConfig and SaveConfig.      *)
(* A Config here holds its rules as a value; the disk accepts every write. *)
(***************************************************************************)
\* A key of the file: present with a value, or missing.
Key(v) == [set |-> TRUE, v |-> v]

Missing == [set |-> FALSE]

\* A readable TOML file with these keys.
ConfigFile(defaultProfileID, browsers, profiles, rules, shorteners, manualShorteners) ==
    [state |-> "ok",
     default_profile_id |-> defaultProfileID, browsers |-> browsers, profiles |-> profiles,
     rules |-> rules, shorteners |-> shorteners, manual_shorteners |-> manualShorteners]

\* A file viper cannot read.
MalformedFile == [state |-> "malformed"]

Config(defaultProfileID, browsers, profiles, rules, shorteners, manualShorteners) ==
    [DefaultProfileID |-> defaultProfileID, Browsers |-> browsers, Profiles |-> profiles,
     Rules |-> rules, Shorteners |-> shorteners, ManualShorteners |-> manualShorteners]

\* DefaultConfig(), with the built-in list of the model.
DefaultConfig == Config("", <<>>, <<>>, <<>>, DefaultShorteners, <<>>)

\* The file WriteConfigAs writes for a Config: every key, a nil slice as an empty one.
Encode(c) ==
    ConfigFile(Key(c.DefaultProfileID), Key(c.Browsers), Key(c.Profiles), Key(c.Rules),
               Key(c.Shorteners), Key(c.ManualShorteners))

\* viper's value for a key: the file's, or the default set for it.
Get(k, default) == IF k.set THEN k.v ELSE default

\* The decode hook of LoadConfig for RuleScope.
decodeHook(scope) == IF scope \in {ScopeURL, ScopeDomain, ScopePath} THEN scope ELSE ScopeURL

\* v.Unmarshal(&cfg, viper.DecodeHook(decodeHook)).
Unmarshal(f) ==
    LET rules == Get(f.rules, DefaultConfig.Rules)
    IN  Config(Get(f.default_profile_id, DefaultConfig.DefaultProfileID),
               Get(f.browsers, DefaultConfig.Browsers),
               Get(f.profiles, DefaultConfig.Profiles),
               [k \in 1..Len(rules) |-> [rules[k] EXCEPT !.Scope = decodeHook(@)]],
               Get(f.shorteners, DefaultConfig.Shorteners),
               Get(f.manual_shorteners, DefaultConfig.ManualShorteners))

ErrReadConfig == "failed to read config file"

\* What LoadConfig returns, and the file it leaves: a missing file is created from the
\* defaults and read again.
Loaded(c, err, f) == [cfg |-> c, err |-> err, file |-> f]

\* LoadConfig that keeps the built-in list it read.
LoadConfigTrustingFile(f) ==
    IF f.state = "malformed" THEN Loaded(DefaultConfig, ErrReadConfig, f)
    ELSE LET read == IF f.state = "absent" THEN Encode(DefaultConfig) ELSE f
         IN  Loaded(Unmarshal(read), NoError, read)

LoadConfig(f) ==
    IF f.state = "malformed" THEN Loaded(DefaultConfig, ErrReadConfig, f)
    ELSE LET read == IF f.state = "absent" THEN Encode(DefaultConfig) ELSE f
         IN  Loaded([Unmarshal(read) EXCEPT !.Shorteners = DefaultConfig.Shorteners],
                    NoError, read)

\* The file after SaveConfig(cfg, cfgFile).
SaveConfig(c) == Encode(c)

(***************************************************************************)
(* package cli: initConfig, which every command runs first.                *)
(***************************************************************************)
RuleNoScope == Rule("No Scope", PatExample, "", "default-profile", FALSE)

RuleBadScope == Rule("Bad Scope", PatExample, "host", "default-profile", FALSE)

\* Files a user may have written: any key may be missing, and shorteners may hold anything.
LoadFiles ==
    {NoFile, MalformedFile} \cup
    {ConfigFile(id, Key(<<BrowserChrome>>), profiles, rules, shorteners, manual) :
        id \in {Missing, Key("default-profile")},
        profiles \in {Missing, Key(<<ProfileDefault>>)},
        rules \in {Missing, Key(<<RuleNoScope, RuleBadScope, RuleGenericDomain>>)},
        shorteners \in {Missing, Key(<<>>), Key(<<Shortener(DomainEvil, TRUE)>>),
                        Key(<<Shortener(DomainBitly, TRUE), Shortener(DomainTco, FALSE)>>),
                        Key(DefaultShorteners)},
        manual \in {Missing} \cup {Key(l) : l \in ManualShortenerLists}}

\* initConfig: the global cfg is what LoadConfig returns; the process exits on an error.
initConfig ==
    /\ rootPc = "init"
    /\ LET l == LoadConfig(file)
       IN  /\ file' = l.file
           /\ IF l.err = NoError
              THEN /\ cfg' = [l.cfg EXCEPT !.Rules = CfgRulesArray]
                   /\ mem' = [mem EXCEPT ![CfgRulesArray] = l.cfg.Rules]
                   /\ rootPc' = "loaded"
                   /\ UNCHANGED exitCode
              ELSE /\ rootPc' = "exited"
                   /\ exitCode' = 1
                   /\ UNCHANGED <<cfg, mem>>
    /\ UNCHANGED <<inputURL, pc, result, resolverVars, args, proc, urlToLaunch, launched, cmd>>

LoadInit ==
    /\ MatcherIdle
    /\ ResolverIdle
    /\ args = <<>>
    /\ rootPc = "init"
    /\ proc = NotProcessed
    /\ urlToLaunch = <<>>
    /\ launched = <<>>
    /\ exitCode = -1
    /\ file \in LoadFiles
    /\ cmd = NoCommand

LoadNext == initConfig

LoadSpec == LoadInit /\ [][LoadNext]_vars

(***************************************************************************)
(* package cli: the profile, set-default and rule commands.  Each command  *)
(* is a process of its own: initConfig loads the file, the command reads   *)
(* its arguments and the user's answers, and saves or exits.  IDs and      *)
(* names are strings as a whole.                                           *)
(***************************************************************************)
MaxProfiles == 2

MaxCfgRules == 1

\* What a command did: its name, the item it was about, and how it ended: "saved",
\* "failed" (exit 1 or an error returned), "cancelled" (exit 0 without saving),
\* "interrupted" (it was still prompting when its input ended).
Ran(name, arg, outcome) == [name |-> name, arg |-> arg, outcome |-> outcome]

\* A command's effect: the configuration it ends with and how it ended.
Done(c, arg, outcome) == [cfg |-> c, arg |-> arg, outcome |-> outcome]

\* promptString: the trimmed input, or the default for an empty one.
promptString(input, defaultValue) == IF input = "" THEN defaultValue ELSE input

\* strings.ToLower(strings.ReplaceAll(s, " ", "-")), on the inputs of the model.
ToLowerDashed(s) ==
    CASE s = "Team Profile" -> "team-profile"
      [] s = "Renamed Profile" -> "renamed-profile"
      [] s = "Team" -> "team"
      [] OTHER -> s

\* fmt.Sprintf("%s-%s", browserID, name), on the inputs of the model.
Sprintf(browserID, name) ==
    CASE browserID = "chrome" /\ name = "team" -> "chrome-team"
      [] browserID = "firefox" /\ name = "team" -> "firefox-team"
      [] OTHER -> "-"

\* strings.EqualFold(s, "yes").
EqualFoldYes(s) == s \in {"yes", "Yes", "YES", "yEs", "yeS", "YEs", "yES", "YeS"}

\* An answer of a selection prompt: the text chosen, or the error AdvancedChoose returned.
Answer(err, text) == [err |-> err, text |-> text]

ErrUserQuit == "user quit"

ErrPrompt == "prompt failed"

Chose(text) == Answer(NoError, text)

ProfileIDsOf(profiles) == {profiles[k].ID : k \in 1..Len(profiles)}

ProfileNamesOf(profiles) == {profiles[k].Name : k \in 1..Len(profiles)}

\* The index of the first profile with this id, 0 for none.
indexOfProfile(profiles, id) ==
    IF FindProfileByID(profiles, id)
    THEN CHOOSE k \in 1..Len(profiles) :
             profiles[k].ID = id /\ \A j \in 1..(k - 1) : profiles[j].ID # id
    ELSE 0

\* promptSelectProfile: the id selected and the error.
promptSelectProfile(availableProfiles, globalDefaultProfileID, answer) ==
    IF Len(availableProfiles) = 0 THEN [id |-> "", err |-> ErrPrompt]
    ELSE IF answer.err = ErrUserQuit THEN [id |-> "", err |-> NoError]
    ELSE IF answer.err # NoError THEN [id |-> "", err |-> answer.err]
    ELSE IF answer.text = "" /\ globalDefaultProfileID # ""
         THEN [id |-> globalDefaultProfileID, err |-> NoError]
    ELSE IF \E k \in 1..Len(availableProfiles) : availableProfiles[k].Name = answer.text
         THEN [id |-> availableProfiles[
                          CHOOSE k \in 1..Len(availableProfiles) :
                              /\ availableProfiles[k].Name = answer.text
                              /\ \A j \in 1..(k - 1) : availableProfiles[j].Name # answer.text].ID,
               err |-> NoError]
    ELSE [id |-> "", err |-> NoError]

\* The profile a command is about: its argument, the only profile, or the one selected.
\* exit is -1 when the command goes on.
selectedProfile(c, argv, answer) ==
    IF Len(argv) # 0 THEN [id |-> argv[1], exit |-> -1]
    ELSE IF Len(c.Profiles) = 1 THEN [id |-> c.Profiles[1].ID, exit |-> -1]
    ELSE IF Len(c.Profiles) = 0 THEN [id |-> "", exit |-> 1]
    ELSE LET s == promptSelectProfile(c.Profiles, c.DefaultProfileID, answer)
         IN  IF s.err # NoError THEN [id |-> "", exit |-> 1]
             ELSE IF s.id = "" THEN [id |-> "", exit |-> 0]
             ELSE [id |-> s.id, exit |-> -1]

exitOutcome(exit) == IF exit = 0 THEN "cancelled" ELSE "failed"

\* The loop that prompts for a profile id until one is accepted: the accepted id, or ""
\* when the answers end first.  index is the profile being edited, 0 for a new one.
RECURSIVE promptProfileID(_, _, _, _)
promptProfileID(profiles, index, defaultID, answers) ==
    IF answers = <<>> THEN ""
    ELSE LET id == ToLowerDashed(promptString(Head(answers), defaultID))
             idExists == /\ index = 0 \/ id # profiles[index].ID
                         /\ \E i \in 1..Len(profiles) : i # index /\ profiles[i].ID = id
         IN  IF id = "" \/ idExists
             THEN promptProfileID(profiles, index, defaultID, Tail(answers))
             ELSE id

\* runProfileAddCmd.
runProfileAddCmd(c, browserID, name, idAnswers, dir, makeDefault) ==
    IF Len(c.Browsers) = 0 THEN Done(c, "", "failed")
    ELSE IF ~FindBrowserByID(c.Browsers, browserID) THEN Done(c, "", "interrupted")
    ELSE IF promptString(name, "") = "" THEN Done(c, "", "failed")
    ELSE LET id == promptProfileID(c.Profiles, 0, Sprintf(browserID, ToLowerDashed(name)),
                                   idAnswers)
             profile == [ID |-> id, Name |-> name, BrowserID |-> browserID,
                         ProfileDir |-> promptString(dir, "Default")]
             added == [c EXCEPT !.Profiles = Append(@, profile)]
         IN  IF id = "" THEN Done(c, "", "interrupted")
             ELSE IF c.DefaultProfileID = "" /\ makeDefault
                  THEN Done([added EXCEPT !.DefaultProfileID = id], id, "saved")
                  ELSE Done(added, id, "saved")

\* Rules left as they are when a profile's id changes.
retargetNoRules(rules, originalID, newProfileID) == rules

\* The rules after profile edit changed a profile's id.
retargetRules(rules, originalID, newProfileID) ==
    [k \in 1..Len(rules) |->
        IF rules[k].ProfileID = originalID
        THEN [rules[k] EXCEPT !.ProfileID = newProfileID]
        ELSE rules[k]]

\* runProfileEditCmd.
runProfileEditCmd(c, argv, answer, name, idAnswers, dir, makeDefault) ==
    LET sel == selectedProfile(c, argv, answer)
        index == indexOfProfile(c.Profiles, sel.id)
    IN  IF sel.exit # -1 THEN Done(c, "", exitOutcome(sel.exit))
        ELSE IF index = 0 THEN Done(c, sel.id, "failed")
        ELSE LET profile == c.Profiles[index]
                 originalID == profile.ID
                 newName == IF promptString(name, profile.Name) = "" THEN profile.Name
                            ELSE promptString(name, profile.Name)
                 newProfileID == promptProfileID(c.Profiles, index, originalID, idAnswers)
                 edited == [profile EXCEPT !.Name = newName, !.ID = newProfileID,
                                           !.ProfileDir = promptString(dir, @)]
                 cascaded ==
                     IF newProfileID # originalID
                     THEN [c EXCEPT !.Profiles[index] = edited,
                                    !.DefaultProfileID =
                                        IF @ = originalID THEN newProfileID ELSE @,
                                    !.Rules = retargetRules(@, originalID, newProfileID)]
                     ELSE [c EXCEPT !.Profiles[index] = edited]
             IN  IF newProfileID = "" THEN Done(c, originalID, "interrupted")
                 ELSE IF cascaded.DefaultProfileID # newProfileID /\ makeDefault
                      THEN Done([cascaded EXCEPT !.DefaultProfileID = newProfileID],
                                originalID, "saved")
                      ELSE Done(cascaded, originalID, "saved")

\* The slice after append(s[:index], s[index+1:]...), index counted from 1.
removeAt(s, index) == SubSeq(s, 1, index - 1) \o SubSeq(s, index + 1, Len(s))

\* A delete that refuses the default profile only.
deleteRefusedForDefaultOnly(c, profileID) == c.DefaultProfileID = profileID

\* Whether runProfileDeleteCmd refuses the profile: it is the default or a rule names it.
deleteRefused(c, profileID) ==
    \/ c.DefaultProfileID = profileID
    \/ \E k \in 1..Len(c.Rules) : c.Rules[k].ProfileID = profileID

\* runProfileDeleteCmd.
runProfileDeleteCmd(c, argv, answer, confirm) ==
    LET sel == selectedProfile(c, argv, answer)
        index == indexOfProfile(c.Profiles, sel.id)
    IN  IF sel.exit # -1 THEN Done(c, "", exitOutcome(sel.exit))
        ELSE IF index = 0 THEN Done(c, sel.id, "failed")
        ELSE IF deleteRefused(c, sel.id) THEN Done(c, sel.id, "failed")
        ELSE IF ~EqualFoldYes(promptString(confirm, "no")) THEN Done(c, sel.id, "cancelled")
        ELSE Done([c EXCEPT !.Profiles = removeAt(@, index)], sel.id, "saved")

\* The profile runSetDefaultProfileCmd is about.
selectedDefault(c, argv, answer) ==
    IF Len(argv) # 0 THEN [id |-> argv[1], exit |-> -1]
    ELSE IF Len(c.Profiles) = 0 THEN [id |-> "", exit |-> 1]
    ELSE IF Len(c.Profiles) = 1 THEN [id |-> c.Profiles[1].ID, exit |-> -1]
    ELSE LET s == promptSelectProfile(c.Profiles, c.DefaultProfileID, answer)
         IN  IF s.err # NoError THEN [id |-> "", exit |-> 1]
             ELSE IF s.id = "" THEN [id |-> "", exit |-> 0]
             ELSE [id |-> s.id, exit |-> -1]

\* runSetDefaultProfileCmd.
runSetDefaultProfileCmd(c, argv, answer) ==
    LET sel == selectedDefault(c, argv, answer)
    IN  IF sel.exit # -1 THEN Done(c, "", exitOutcome(sel.exit))
        ELSE IF ~FindProfileByID(c.Profiles, sel.id) THEN Done(c, sel.id, "failed")
        ELSE Done([c EXCEPT !.DefaultProfileID = sel.id], sel.id, "saved")

\* The index of the first rule with this name; the code's ruleIndex stays at the first
\* rule when there is none.
indexOfRule(rules, name) ==
    IF \E k \in 1..Len(rules) : rules[k].Name = name
    THEN CHOOSE k \in 1..Len(rules) :
             rules[k].Name = name /\ \A j \in 1..(k - 1) : rules[j].Name # name
    ELSE 1

\* runRuleAddCmd: the profile is one of the choices, the ids of the configured profiles.
runRuleAddCmd(c, name, pattern, scope, profileChoice) ==
    IF profileChoice.err # NoError THEN Done(c, name, "failed")
    ELSE Done([c EXCEPT !.Rules = Append(@, Rule(name, pattern, scope, profileChoice.text,
                                                 FALSE))],
              name, "saved")

\* runRuleEditCmd.  Without rules the command ends in an error or a panic.
runRuleEditCmd(c, ruleChoice, pattern, scope, profileChoice) ==
    IF ruleChoice.err # NoError \/ Len(c.Rules) = 0 THEN Done(c, "", "failed")
    ELSE IF profileChoice.err # NoError THEN Done(c, ruleChoice.text, "failed")
    ELSE LET ruleIndex == indexOfRule(c.Rules, ruleChoice.text)
         IN  Done([c EXCEPT !.Rules[ruleIndex].Pattern = promptString(pattern, @),
                            !.Rules[ruleIndex].ProfileID = profileChoice.text,
                            !.Rules[ruleIndex].Scope = scope],
                  ruleChoice.text, "saved")

\* runRuleDeleteCmd.  Without rules the command ends in an error or a panic.
runRuleDeleteCmd(c, ruleChoice) ==
    IF ruleChoice.err # NoError \/ Len(c.Rules) = 0 THEN Done(c, "", "failed")
    ELSE Done([c EXCEPT !.Rules = removeAt(@, indexOfRule(c.Rules, ruleChoice.text))],
              ruleChoice.text, "saved")

\* The choices AdvancedChoose offers and the user's way out.
Choices(texts) == {Chose(t) : t \in texts} \cup {Answer(ErrUserQuit, "")}

\* The answers to promptSelectProfile: a name of the list, Enter, or quit.
ProfileAnswers(c) == Choices(ProfileNamesOf(c.Profiles) \cup {""})

\* The ways to name a profile to a command: an argument, or an answer to its prompt.
ProfileSelections(c) ==
    {[argv |-> <<id>>, answer |-> Chose("")] :
        id \in ProfileIDsOf(c.Profiles) \cup {"nonexistent-profile"}}
    \cup {[argv |-> <<>>, answer |-> a] : a \in ProfileAnswers(c)}

\* The profile choices of the rule commands.  What AdvancedChoose returns for an empty
\* list is not in the source: an error, or no text.
ProfileChoices(c) ==
    IF Len(c.Profiles) = 0 THEN Choices({""}) ELSE Choices(ProfileIDsOf(c.Profiles))

RuleChoices(c) == Choices({c.Rules[k].Name : k \in 1..Len(c.Rules)})

\* The answers to the prompts of profile edit: Enter throughout, a new id, or the id of
\* the first profile of the list and then a new one.
ProfileEdits(c) ==
    {[idAnswers |-> <<"">>, makeDefault |-> FALSE],
     [idAnswers |-> <<"Renamed Profile">>, makeDefault |-> FALSE],
     [idAnswers |-> <<"Renamed Profile">>, makeDefault |-> TRUE]}
    \cup {[idAnswers |-> <<c.Profiles[k].ID, "Renamed Profile">>, makeDefault |-> FALSE] :
            k \in {1} \cap DOMAIN c.Profiles}

\* The answers to the prompts of profile add.
ProfileAdds ==
    {[browserID |-> "chrome", name |-> "Team", idAnswers |-> <<"">>, makeDefault |-> TRUE],
     [browserID |-> "chrome", name |-> "Team",
      idAnswers |-> <<"default-profile", "work-profile", "">>, makeDefault |-> FALSE],
     [browserID |-> "chrome", name |-> "", idAnswers |-> <<>>, makeDefault |-> FALSE],
     [browserID |-> "safari", name |-> "", idAnswers |-> <<>>, makeDefault |-> FALSE]}

\* A command ends: the file is what LoadConfig left, or what SaveConfig wrote.
commandEnds(name, loaded, done) ==
    /\ file' = IF done.outcome = "saved" THEN SaveConfig(done.cfg) ELSE loaded.file
    /\ cmd' = Ran(name, done.arg, done.outcome)
    /\ UNCHANGED <<matcherVars, resolverVars, rootVars>>

\* The shell from which the commands are run.
AtShell == rootPc = "shell" /\ LoadConfig(file).err = NoError

ProfileAdd ==
    /\ AtShell
    /\ LET l == LoadConfig(file)
       IN  /\ Len(l.cfg.Profiles) < MaxProfiles
           /\ \E in \in ProfileAdds :
                 commandEnds("profile add", l,
                             runProfileAddCmd(l.cfg, in.browserID, in.name, in.idAnswers, "",
                                              in.makeDefault))

ProfileEdit ==
    /\ AtShell
    /\ LET l == LoadConfig(file)
       IN  \E sel \in ProfileSelections(l.cfg), in \in ProfileEdits(l.cfg) :
              commandEnds("profile edit", l,
                          runProfileEditCmd(l.cfg, sel.argv, sel.answer, "", in.idAnswers,
                                            "", in.makeDefault))

ProfileDelete ==
    /\ AtShell
    /\ LET l == LoadConfig(file)
       IN  \E sel \in ProfileSelections(l.cfg), confirm \in {"", "Yes"} :
              commandEnds("profile delete", l,
                          runProfileDeleteCmd(l.cfg, sel.argv, sel.answer, confirm))

SetDefault ==
    /\ AtShell
    /\ LET l == LoadConfig(file)
       IN  \E sel \in ProfileSelections(l.cfg) :
              commandEnds("set-default", l,
                          runSetDefaultProfileCmd(l.cfg, sel.argv, sel.answer))

\* The rule commands load the configuration a second time.
RuleAdd ==
    /\ AtShell
    /\ LET l == LoadConfig(LoadConfig(file).file)
       IN  /\ Len(l.cfg.Rules) < MaxCfgRules
           /\ \E name \in {"New Rule"}, profileChoice \in ProfileChoices(l.cfg) :
                 commandEnds("rule add", l,
                             runRuleAddCmd(l.cfg, name, PatExample, ScopeURL, profileChoice))

RuleEdit ==
    /\ AtShell
    /\ LET l == LoadConfig(LoadConfig(file).file)
       IN  \E ruleChoice \in RuleChoices(l.cfg), profileChoice \in ProfileChoices(l.cfg) :
              commandEnds("rule edit", l,
                          runRuleEditCmd(l.cfg, ruleChoice, "", ScopeURL, profileChoice))

RuleDelete ==
    /\ AtShell
    /\ LET l == LoadConfig(LoadConfig(file).file)
       IN  \E ruleChoice \in RuleChoices(l.cfg) :
              commandEnds("rule delete", l, runRuleDeleteCmd(l.cfg, ruleChoice))

\* Saved configurations whose default profile and rules name profiles of the list.
ValidConfigs ==
    {Config("default-profile", <<BrowserChrome>>, <<ProfileDefault>>, <<>>,
            DefaultShorteners, <<>>),
     Config("default-profile", <<BrowserChrome>>, <<ProfileDefault, ProfileWork>>,
            <<RuleGenericDomain, RuleSpecificPath>>, DefaultShorteners,
            <<Shortener(DomainMine, TRUE)>>),
     Config("work-profile", <<BrowserChrome>>, <<ProfileWork>>, <<RuleSpecificPath>>,
            DefaultShorteners, <<>>)}

ConfigInit ==
    /\ MatcherIdle
    /\ ResolverIdle
    /\ args = <<>>
    /\ rootPc = "shell"
    /\ proc = NotProcessed
    /\ urlToLaunch = <<>>
    /\ launched = <<>>
    /\ exitCode = -1
    /\ \E c \in ValidConfigs : file = SaveConfig(c)
    /\ cmd = NoCommand

ConfigNext ==
    \/ ProfileAdd
    \/ ProfileEdit
    \/ ProfileDelete
    \/ SetDefault
    \/ RuleAdd
    \/ RuleEdit
    \/ RuleDelete

ConfigSpec == ConfigInit /\ [][ConfigNext]_vars

(***************************************************************************)
(* package cli: the shorturl commands.  Domains are sequences of           *)
(* characters; the commands work on the configuration initConfig loaded.   *)
(***************************************************************************)
MaxManual == 2

\* strings.ContainsAny
ContainsAny(s, chars) == \E k \in 1..Len(s) : s[k] \in chars

\* The domains of a shortener list.
DomainsOf(list) == {list[k].Domain : k \in 1..Len(list)}

\* FindManualShortenerByDomain: the index of the first entry of the domain, 0 for none.
FindManualShortenerByDomain(c, domain) ==
    IF \E k \in 1..Len(c.ManualShorteners) : c.ManualShorteners[k].Domain = domain
    THEN CHOOSE k \in 1..Len(c.ManualShorteners) :
             /\ c.ManualShorteners[k].Domain = domain
             /\ \A j \in 1..(k - 1) : c.ManualShorteners[j].Domain # domain
    ELSE 0

\* The --safelink flag: given or not, and its value.
Flag(changed, value) == [changed |-> changed, value |-> value]

\* promptSafelink: "Yes" or "No", the current value on an error or an empty answer.
promptSafelink(answer, currentValue) ==
    IF answer.err # NoError \/ answer.text = "" THEN currentValue ELSE answer.text = "Yes"

\* The flag's value, or the answer to the prompt when the flag was not given.
safelinkValue(flag, answer, currentValue) ==
    IF flag.changed THEN flag.value ELSE promptSafelink(answer, currentValue)

\* A variant of addRefused that looks at the manual list only.
addRefusedForManualOnly(c, domain) ==
    \/ domain \in DomainsOf(c.ManualShorteners)
    \/ ~Contains(domain, ".")
    \/ ContainsAny(domain, {"/", ":", "?", "#", "@"})

\* runAddManualShortURLCmd exits 1: the domain is in one of the lists, or is no domain.
addRefused(c, domain) ==
    \/ domain \in DomainsOf(c.Shorteners)
    \/ domain \in DomainsOf(c.ManualShorteners)
    \/ ~Contains(domain, ".")
    \/ ContainsAny(domain, {"/", ":", "?", "#", "@"})

runAddManualShortURLCmd(c, domain, flag, answer) ==
    IF addRefused(c, domain) THEN Done(c, domain, "failed")
    ELSE Done([c EXCEPT !.ManualShorteners =
                            Append(@, Shortener(domain, safelinkValue(flag, answer, FALSE)))],
              domain, "saved")

\* promptSelectManualShortURL: the domain chosen, none when the user quit.
promptSelectManualShortURL(shorteners, answer) ==
    IF Len(shorteners) = 0 THEN [domain |-> <<>>, err |-> ErrPrompt]
    ELSE IF answer.err = ErrUserQuit THEN [domain |-> <<>>, err |-> NoError]
    ELSE IF answer.err # NoError THEN [domain |-> <<>>, err |-> answer.err]
    ELSE IF answer.text \in DomainsOf(shorteners) THEN [domain |-> answer.text, err |-> NoError]
    ELSE [domain |-> <<>>, err |-> NoError]

\* The domain an edit or a delete is about: the argument, or the one chosen at the prompt;
\* exit is -1 while the command goes on.
selectedShortener(c, argv, answer) ==
    IF Len(argv) # 0 THEN [domain |-> argv[1], exit |-> -1]
    ELSE IF Len(c.ManualShorteners) = 0 THEN [domain |-> <<>>, exit |-> 1]
    ELSE LET s == promptSelectManualShortURL(c.ManualShorteners, answer)
         IN  IF s.err # NoError THEN [domain |-> <<>>, exit |-> 1]
             ELSE IF s.domain = <<>> THEN [domain |-> <<>>, exit |-> 0]
             ELSE [domain |-> s.domain, exit |-> -1]

runEditManualShortURLCmd(c, argv, answer, flag, safelinkAnswer) ==
    LET sel == selectedShortener(c, argv, answer)
        index == FindManualShortenerByDomain(c, sel.domain)
    IN  IF sel.exit # -1 THEN Done(c, <<>>, exitOutcome(sel.exit))
        ELSE IF index = 0 THEN Done(c, sel.domain, "failed")
        ELSE LET newValue == safelinkValue(flag, safelinkAnswer,
                                           c.ManualShorteners[index].IsSafelink)
             IN  IF newValue = c.ManualShorteners[index].IsSafelink
                 THEN Done(c, sel.domain, "cancelled")
                 ELSE Done([c EXCEPT !.ManualShorteners[index].IsSafelink = newValue],
                           sel.domain, "saved")

runDeleteManualShortURLCmd(c, argv, answer, confirm) ==
    LET sel == selectedShortener(c, argv, answer)
        index == FindManualShortenerByDomain(c, sel.domain)
    IN  IF sel.exit # -1 THEN Done(c, <<>>, exitOutcome(sel.exit))
        ELSE IF sel.domain \in DomainsOf(c.Shorteners) THEN Done(c, sel.domain, "failed")
        ELSE IF index = 0 THEN Done(c, sel.domain, "failed")
        ELSE IF ~EqualFoldYes(promptString(confirm, "no")) THEN Done(c, sel.domain, "cancelled")
        ELSE Done([c EXCEPT !.ManualShorteners = removeAt(@, index)], sel.domain, "saved")

\* A string with a path, which is no domain.
DomainWithPath == DomainMine \o <<"/", "x">>

\* The domains given to the shorturl commands.
ShortURLDomains == {DomainMine, DomainGo, DomainBitly, DomainSafelinks, DomainBad, DomainWithPath}

\* The --safelink flag and the answers to the safelink prompt.
SafelinkInputs ==
    {[flag |-> Flag(TRUE, v), answer |-> Chose("")] : v \in BOOLEAN}
    \cup {[flag |-> Flag(FALSE, FALSE), answer |-> a] :
            a \in {Chose("Yes"), Chose("No"), Chose(""), Answer(ErrUserQuit, "")}}

\* The ways to name a manual entry: an argument, or an answer to the prompt.
ShortenerSelections(c) ==
    {[argv |-> <<d>>, answer |-> Chose(<<>>)] : d \in ShortURLDomains}
    \cup {[argv |-> <<>>, answer |-> Chose(d)] : d \in DomainsOf(c.ManualShorteners)}
    \cup {[argv |-> <<>>, answer |-> Answer(e, <<>>)] : e \in {ErrUserQuit, ErrPrompt}}

ShortURLAdd ==
    /\ AtShell
    /\ LET l == LoadConfig(file)
       IN  /\ Len(l.cfg.ManualShorteners) < MaxManual
           /\ \E domain \in ShortURLDomains, in \in SafelinkInputs :
                 commandEnds("shorturl add", l,
                             runAddManualShortURLCmd(l.cfg, domain, in.flag, in.answer))

ShortURLEdit ==
    /\ AtShell
    /\ LET l == LoadConfig(file)
       IN  \E sel \in ShortenerSelections(l.cfg), in \in SafelinkInputs :
              commandEnds("shorturl edit", l,
                          runEditManualShortURLCmd(l.cfg, sel.argv, sel.answer, in.flag,
                                                   in.answer))

ShortURLDelete ==
    /\ AtShell
    /\ LET l == LoadConfig(file)
       IN  \E sel \in ShortenerSelections(l.cfg), confirm \in {"", "no", "YES"} :
              commandEnds("shorturl delete", l,
                          runDeleteManualShortURLCmd(l.cfg, sel.argv, sel.answer, confirm))

\* Manual lists without a duplicate domain and without a built-in domain.
ManualLists ==
    {<<>>, <<Shortener(DomainMine, TRUE)>>,
     <<Shortener(DomainGo, FALSE), Shortener(DomainMine, FALSE)>>}

ShortURLInit ==
    /\ MatcherIdle
    /\ ResolverIdle
    /\ args = <<>>
    /\ rootPc = "shell"
    /\ proc = NotProcessed
    /\ urlToLaunch = <<>>
    /\ launched = <<>>
    /\ exitCode = -1
    /\ \E manual \in ManualLists :
          file = SaveConfig(Config("default-profile", <<BrowserChrome>>, <<ProfileDefault>>,
                                   <<RuleGenericDomain>>, DefaultShorteners, manual))
    /\ cmd = NoCommand

ShortURLNext ==
    \/ ShortURLAdd
    \/ ShortURLEdit
    \/ ShortURLDelete

ShortURLSpec == ShortURLInit /\ [][ShortURLNext]_vars

(***************************************************************************)
(* package cli: detect-browsers.  What browser.DetectAll finds on the      *)
(* machine is an input; NewDetector has no failing implementation.         *)
(***************************************************************************)
ProfileFirefox ==
    [ID |-> "firefox-default", Name |-> "Firefox", BrowserID |-> "firefox", ProfileDir |-> ""]

\* The ids of a browser list.
BrowserIDsOf(browsers) == {browsers[k].BrowserID : k \in 1..Len(browsers)}

\* compareDetectedWithConfig: the ids of the configured profiles that go, because their
\* configured browser was not detected, or their browser was and they were not.  The
\* profile of an id is the last one of the list with it.
compareDetectedWithConfig(c, detectedBrowserIDs, detectedProfileIDs) ==
    LET last(id) == c.Profiles[CHOOSE k \in 1..Len(c.Profiles) :
                                   /\ c.Profiles[k].ID = id
                                   /\ \A j \in (k + 1)..Len(c.Profiles) : c.Profiles[j].ID # id]
    IN  {c.Profiles[k].ID : k \in {j \in 1..Len(c.Profiles) :
            c.Profiles[j].BrowserID \in BrowserIDsOf(c.Browsers) \ detectedBrowserIDs}}
        \cup {id \in ProfileIDsOf(c.Profiles) :
                /\ last(id).BrowserID \in detectedBrowserIDs
                /\ id \notin detectedProfileIDs}

\* handleOrphanedDefaultProfile: the default after detection.
handleOrphanedDefaultProfile(originalDefaultID, currentDefaultID, profileIDsToRemove, profilesToKeep, answer) ==
    IF originalDefaultID \in profileIDsToRemove /\ originalDefaultID # ""
    THEN IF Len(profilesToKeep) = 1 THEN profilesToKeep[1].ID
         ELSE IF Len(profilesToKeep) > 1
              THEN LET s == promptSelectProfile(profilesToKeep, originalDefaultID, answer)
                   IN  IF s.err # NoError \/ s.id = "" THEN "" ELSE s.id
         ELSE ""
    ELSE currentDefaultID

DeleteThisItem == "Delete this item"

\* promptSelectProfileOrDelete: a profile id, or delete, or neither when the user quit.
promptSelectProfileOrDelete(availableProfiles, answer, confirmDelete) ==
    IF Len(availableProfiles) = 0
    THEN IF EqualFoldYes(promptString(confirmDelete, "yes"))
         THEN [id |-> "", delete |-> TRUE, err |-> NoError]
         ELSE [id |-> "", delete |-> FALSE, err |-> ErrPrompt]
    ELSE IF answer.err = ErrUserQuit THEN [id |-> "", delete |-> FALSE, err |-> NoError]
    ELSE IF answer.err # NoError THEN [id |-> "", delete |-> FALSE, err |-> answer.err]
    ELSE IF answer.text = DeleteThisItem THEN [id |-> "", delete |-> TRUE, err |-> NoError]
    ELSE IF \E k \in 1..Len(availableProfiles) : availableProfiles[k].Name = answer.text
         THEN [id |-> availableProfiles[
                          CHOOSE k \in 1..Len(availableProfiles) :
                              /\ availableProfiles[k].Name = answer.text
                              /\ \A j \in 1..(k - 1) : availableProfiles[j].Name # answer.text].ID,
               delete |-> FALSE, err |-> NoError]
    ELSE [id |-> "", delete |-> FALSE, err |-> NoError]

\* handleOrphanedRules: by rule name, the new profile id of a rule whose profile goes, and
\* the names of the rules to delete; answers[k] is the answer to the prompt for rule k.
handleOrphanedRules(originalRules, profileIDsToRemove, profilesToKeep, answers) ==
    LET orphans == {k \in 1..Len(originalRules) :
                       originalRules[k].ProfileID \in profileIDsToRemove}
        decided(k) ==
            IF Len(profilesToKeep) = 1 THEN [id |-> profilesToKeep[1].ID, delete |-> FALSE]
            ELSE IF Len(profilesToKeep) > 1
                 THEN LET s == promptSelectProfileOrDelete(profilesToKeep, answers[k], "")
                      IN  IF s.err # NoError \/ s.delete \/ s.id = ""
                          THEN [id |-> "", delete |-> TRUE]
                          ELSE [id |-> s.id, delete |-> FALSE]
            ELSE [id |-> "", delete |-> TRUE]
        updated == {k \in orphans : ~decided(k).delete}
    IN  [rulesToUpdate |->
            [name \in {originalRules[k].Name : k \in updated} |->
                decided(CHOOSE k \in updated :
                            /\ originalRules[k].Name = name
                            /\ \A j \in updated : originalRules[j].Name = name => j <= k).id],
         rulesToDelete |-> {originalRules[k].Name : k \in orphans \ updated}]

\* The rules of the final configuration: those not deleted, with the new profile ids.
finalRules(rules, rulesToUpdate, rulesToDelete) ==
    LET kept == SelectSeq(rules, LAMBDA rule : rule.Name \notin rulesToDelete)
    IN  [k \in 1..Len(kept) |->
            IF kept[k].Name \in DOMAIN rulesToUpdate
            THEN [kept[k] EXCEPT !.ProfileID = rulesToUpdate[kept[k].Name]]
            ELSE kept[k]]

\* The configuration runDetectBrowsersCmd proposes to save.
finalCfg(c, discoveredBrowsers, discoveredProfiles, defaultAnswer, ruleAnswers) ==
    LET profileIDsToRemove ==
            compareDetectedWithConfig(c, BrowserIDsOf(discoveredBrowsers),
                                      ProfileIDsOf(discoveredProfiles))
        newDefaultProfileID ==
            handleOrphanedDefaultProfile(c.DefaultProfileID, c.DefaultProfileID,
                                         profileIDsToRemove, discoveredProfiles, defaultAnswer)
        orphaned == handleOrphanedRules(c.Rules, profileIDsToRemove, discoveredProfiles,
                                        ruleAnswers)
    IN  Config(newDefaultProfileID, discoveredBrowsers, discoveredProfiles,
               finalRules(c.Rules, orphaned.rulesToUpdate, orphaned.rulesToDelete),
               c.Shorteners, <<>>)

\* reflect.DeepEqual of the copy of a configured list and a list of the final
\* configuration: the copy is never nil, and DetectAll's profile list is nil when empty.
DeepEqual(original, final, nilWhenEmpty) ==
    original = final /\ ~(nilWhenEmpty /\ final = <<>>)

runDetectBrowsersCmd(c, detectSave, discoveredBrowsers, discoveredProfiles, defaultAnswer, ruleAnswers, confirm) ==
    LET final == finalCfg(c, discoveredBrowsers, discoveredProfiles, defaultAnswer,
                          ruleAnswers)
        configActuallyChanged ==
            \/ ~DeepEqual(c.Browsers, final.Browsers, FALSE)
            \/ ~DeepEqual(c.Profiles, final.Profiles, TRUE)
            \/ c.DefaultProfileID # final.DefaultProfileID
            \/ ~DeepEqual(c.Rules, final.Rules, FALSE)
    IN  IF ~detectSave THEN Done(c, "", "printed")
        ELSE IF ~configActuallyChanged THEN Done(c, "--save", "unchanged")
        ELSE IF ~EqualFoldYes(promptString(confirm, "no")) THEN Done(c, "--save", "cancelled")
        ELSE Done(final, "--save", "saved")

\* What detection finds: nothing, one browser with one or two profiles, two browsers.
Detections ==
    {[browsers |-> <<>>, profiles |-> <<>>],
     [browsers |-> <<BrowserChrome>>, profiles |-> <<ProfileDefault>>],
     [browsers |-> <<BrowserChrome>>, profiles |-> <<ProfileDefault, ProfileWork>>],
     [browsers |-> <<BrowserFirefox, BrowserChrome>>,
      profiles |-> <<ProfileFirefox, ProfileDefault>>]}

\* The answers to the prompt for a new default profile.
DefaultAnswers(profiles) ==
    {Chose(t) : t \in ProfileNamesOf(profiles) \cup {""}} \cup {Answer(ErrUserQuit, "")}

\* The answers to the prompts for the rules: one for each rule of the configuration.
RuleAnswers(c, profiles) ==
    [1..Len(c.Rules) ->
        {Chose(t) : t \in ProfileNamesOf(profiles) \cup {DeleteThisItem}}
        \cup {Answer(ErrUserQuit, ""), Answer(ErrPrompt, "")}]

DetectBrowsers ==
    /\ AtShell
    /\ LET l == LoadConfig(file)
       IN  \E detectSave \in BOOLEAN, found \in Detections, confirm \in {"", "yes"} :
           \E defaultAnswer \in DefaultAnswers(found.profiles),
              ruleAnswers \in RuleAnswers(l.cfg, found.profiles) :
              commandEnds("detect-browsers", l,
                          runDetectBrowsersCmd(l.cfg, detectSave, found.browsers,
                                               found.profiles, defaultAnswer, ruleAnswers,
                                               confirm))

DetectInit ==
    /\ MatcherIdle
    /\ ResolverIdle
    /\ args = <<>>
    /\ rootPc = "shell"
    /\ proc = NotProcessed
    /\ urlToLaunch = <<>>
    /\ launched = <<>>
    /\ exitCode = -1
    /\ \E c \in ValidConfigs, manual \in ManualLists :
          file = SaveConfig([c EXCEPT !.ManualShorteners = manual])
    /\ cmd = NoCommand

\* detect-browsers, between commands that add to the manual list.
DetectNext ==
    \/ DetectBrowsers
    \/ ShortURLAdd

DetectSpec == DetectInit /\ [][DetectNext]_vars

(***************************************************************************)
(* Properties of ResolveShortenedURL.                                      *)
(***************************************************************************)
\* The resolver returned.
ResolverDone == rpc = "done"

\* The resolver returned a URL.
ResolveSucceeded == ResolverDone /\ resolveResult.err = NoError

InRange(status, low, high) == low <= status /\ status < high

\* The responses received so far, in order.
responsesReceived == [n \in 1..Len(requests) |-> requests[n].resp]

\* A response that is a redirect with a Location.
IsRedirect(resp) == ~resp.failed /\ InRange(resp.StatusCode, 300, 400) /\ resp.Location # <<>>

\* A response with a 2xx status.
IsSuccess(resp) == ~resp.failed /\ InRange(resp.StatusCode, 200, 300)

\* The positions of the redirects among the responses received.
Redirects == {n \in 1..Len(requests) : IsRedirect(requests[n].resp)}

\* Scheme and authority of an absolute URL: what comes before the third slash.
Origin(url) ==
    LET slashes == {k \in 1..Len(url) : url[k] = "/"}
    IN  IF Cardinality(slashes) < 3 THEN url
        ELSE SubSeq(url, 1, (CHOOSE k \in slashes : Cardinality({j \in slashes : j < k}) = 2) - 1)

\* Where a Location sends a client that asked for url: an absolute Location as it is, a
\* Location that starts with a slash on the origin of url.
Target(url, location) == IF location[1] = "/" THEN Origin(url) \o location ELSE location

\* The URL that the first n responses lead to from shortURL.
RECURSIVE UrlAfter(_)
UrlAfter(n) ==
    IF n = 0 THEN shortURL
    ELSE IF IsRedirect(requests[n].resp) THEN Target(UrlAfter(n - 1), requests[n].resp.Location)
    ELSE UrlAfter(n - 1)

\* C11: ResolveShortenedURL returns the URL of the hop that answered 2xx: once the responses
\* are k redirects and then a 2xx, with k < 5, it has returned without error the URL the
\* Locations lead to, asked for by the last request, and with k = 0 it has returned its input.
C11_ReturnsUrlOfFinalHop ==
    /\ ResolveSucceeded =>
          /\ Cardinality(Redirects) < maxRedirects
          /\ resolveResult.url = UrlAfter(Len(requests))
          /\ resolveResult.url = requests[Len(requests)].URL
          /\ Redirects = {} => resolveResult.url = shortURL
    /\ (requests # <<>> /\ IsSuccess(requests[Len(requests)].resp)) => ResolveSucceeded

\* Two redirects, the second one relative, then a 2xx: the resolver returned the last URL.
C11_Witness ==
    /\ ResolveSucceeded
    /\ shortURL = UrlShort
    /\ Cardinality(Redirects) = 2
    /\ requests[2].resp.Location = LocNext
    /\ resolveResult.url # shortURL
    /\ resolveResult.url = <<"h", "t", "t", "p", "s", ":", "/", "/", "e", "x", "a", "m", "p", "l",
                             "e", ".", "c", "o", "m", "/", "n", "e", "x", "t">>

\* The hops made so far: the HEAD requests.
Hops == {n \in 1..Len(requests) : requests[n].Method = "HEAD"}

\* A redirect the resolver can follow: its Location parses.
IsFollowable(resp) == IsRedirect(resp) /\ Parse(resp.Location).ok

C13_GetFallbackOnlyOnFirstHop ==
    /\ \A n \in 1..Len(requests) :
          requests[n].Method = "GET" =>
              /\ n = 2
              /\ requests[n].hop = 0
              /\ requests[1].Method = "HEAD" /\ requests[1].hop = 0 /\ requests[1].resp.failed
              /\ requests[n].URL = requests[1].URL
    /\ Cardinality({n \in 1..Len(requests) : requests[n].Method = "GET"}) <= 1
    /\ \A n \in 1..Len(requests) :
          (requests[n].resp.failed /\ (requests[n].hop > 0 \/ requests[n].Method = "GET")) =>
              /\ n = Len(requests)
              /\ ResolverDone
              /\ resolveResult = ResolveFailure(ErrRequest)

\* The HEAD of hop 0 failed and the GET was redirected; the HEAD of hop 1 failed, which ended
\* the resolution with no second GET.
C13_Witness ==
    /\ ResolverDone
    /\ Len(requests) = 3
    /\ requests[1].resp.failed
    /\ requests[2].Method = "GET" /\ IsRedirect(requests[2].resp)
    /\ requests[3].Method = "HEAD" /\ requests[3].hop = 1 /\ requests[3].resp.failed
    /\ resolveResult.err = ErrRequest

\* A response that ends the resolution with an error: a redirect without Location, or a status
\* outside [200,400).
IsErrorResponse(resp) ==
    /\ ~resp.failed
    /\ \/ InRange(resp.StatusCode, 300, 400) /\ resp.Location = <<>>
       \/ ~InRange(resp.StatusCode, 200, 400)

\* C14: the resolver succeeds only if the last response it received was a 2xx; a redirect
\* without Location and a status outside [200,400) is the last response received, and the
\* resolver has returned an error and no URL.
C14_SuccessOnlyOn2xx ==
    /\ ResolveSucceeded => requests # <<>> /\ IsSuccess(requests[Len(requests)].resp)
    /\ \A n \in 1..Len(requests) :
          IsErrorResponse(requests[n].resp) =>
              /\ n = Len(requests)
              /\ ResolverDone
              /\ resolveResult.url = <<>>
              /\ resolveResult.err =
                    IF InRange(requests[n].resp.StatusCode, 300, 400) THEN ErrNoLocation ELSE ErrStatus

\* After one redirect the second hop answered 3xx without Location: an error at that hop.
C14_Witness ==
    /\ ResolverDone
    /\ Len(requests) = 2
    /\ IsRedirect(requests[1].resp)
    /\ requests[2].hop = 1
    /\ requests[2].resp.StatusCode = 301 /\ requests[2].resp.Location = <<>>
    /\ resolveResult = ResolveFailure(ErrNoLocation)

(***************************************************************************)
(* Properties of ProcessURL and of the root command.                       *)
(***************************************************************************)
\* The root command got a URL and ProcessURL returned.
ProcessReturned == rootPc \in {"rules", "exited"} /\ args # <<>>

\* ProcessURL called the resolver, and it returned a URL, or it failed.
ResolutionSucceeded == ProcessReturned /\ rpc = "done" /\ resolveResult.err = NoError

ResolutionFailed == ProcessReturned /\ rpc = "done" /\ resolveResult.err # NoError

\* The input as it is, not a safelink, no error.
PassedThrough == proc = Processed(args[1], args[1], FALSE, NoError)

\* C15: ProcessURL returns original_url equal to its input on every return path.
C15_OriginalUrlIsInput == ProcessReturned => proc.originalURL = args[1]

\* A resolution succeeded and gave another URL than the input; the original URL is the input.
C15_Witness ==
    /\ ResolutionSucceeded
    /\ proc.urlForMatching # args[1]
    /\ proc.originalURL = args[1]

\* C16: a shortener resolution failure never aborts routing: ProcessURL returns the input for
\* matching and as original, is_safelink false and no error, whatever the entry's flag, and
\* the root command calls ApplyRules with the input and, given a match result, Launch with it.
C16_ResolutionFailureDoesNotAbort ==
    ResolutionFailed =>
        /\ PassedThrough
        /\ inputURL = args[1]
        /\ urlToLaunch = args[1]
        /\ rootPc = "exited" => pc = "returned"
        /\ pc = "returned" =>
              result = matchRules(cfg.Profiles, cfg.DefaultProfileID, callerRules, args[1])
        /\ (rootPc = "exited" /\ result.err = NoError) => launched # <<>>
        /\ launched # <<>> => launched[1].URL = args[1]

\* Too many redirects behind a manual safelink entry: the browser was started with the input.
C16_Witness ==
    /\ ResolutionFailed
    /\ resolveResult.err = ErrTooManyRedirects
    /\ cfg.ManualShorteners = <<Shortener(DomainBitly, TRUE)>>
    /\ args = <<UrlShort>>
    /\ launched # <<>>
    /\ launched[1].started
    /\ launched[1].URL = UrlShort
    /\ exitCode = 0

\* The input fails url.Parse, or its scheme is neither http nor https.
Ineligible == ~Parse(args[1]).ok \/ ~eligibleScheme(Parse(args[1]).Scheme)

\* C17: ProcessURL never returns an error for unparseable or non-http(s) input: it returns
\* the input for matching and as original, is_safelink false and no error, and does not
\* call the resolver.
C17_NoErrorForIneligibleInput ==
    (ProcessReturned /\ Ineligible) => PassedThrough /\ rpc = "idle"

\* The list has an entry for exactly this hostname; the first such entry.
Listed(list, hostname) == \E k \in 1..Len(list) : list[k].Domain = hostname

FirstListed(list, hostname) ==
    list[CHOOSE k \in 1..Len(list) :
             list[k].Domain = hostname /\ \A j \in 1..(k - 1) : list[j].Domain # hostname]

\* The hostname of the input.
InputHost == Hostname(Parse(args[1]))

\* C18: the shortener lookup is by exact hostname equality, manual list before built-in
\* list: the resolver is called only for a hostname that is the Domain of an entry, not for
\* a subdomain or a superstring of one, and after a successful resolution is_safelink is the
\* manual entry's value when the manual list has the hostname.
C18_ExactMatchManualFirst ==
    ProcessReturned =>
        /\ rpc = "done" =>
              Listed(cfg.ManualShorteners, InputHost) \/ Listed(cfg.Shorteners, InputHost)
        /\ args[1] \in {UrlSubdomain, UrlSuperstring} => rpc = "idle" /\ PassedThrough
        /\ (ResolutionSucceeded /\ Listed(cfg.ManualShorteners, InputHost)) =>
              proc.isSafelink = FirstListed(cfg.ManualShorteners, InputHost).IsSafelink

\* bit.ly is a safelink in the manual list and not one in the built-in list.
C18_Witness ==
    /\ ResolutionSucceeded
    /\ args = <<UrlShort>>
    /\ cfg.ManualShorteners = <<Shortener(DomainBitly, TRUE)>>
    /\ FirstListed(cfg.Shorteners, DomainBitly) = Shortener(DomainBitly, FALSE)
    /\ proc.isSafelink

\* The flag of the entry the lookup finds.
EntryFlag ==
    IF Listed(cfg.ManualShorteners, InputHost)
    THEN FirstListed(cfg.ManualShorteners, InputHost).IsSafelink
    ELSE FirstListed(cfg.Shorteners, InputHost).IsSafelink

\* C19: for an http(s) input whose hostname matches a shortener entry, manual or built-in,
\* and a successful resolution, ProcessURL returns the resolved URL for matching, the input
\* as original, the entry's flag and no error.
C19_SuccessfulResolution ==
    ResolutionSucceeded =>
        /\ eligibleScheme(Parse(args[1]).Scheme)
        /\ proc = Processed(resolveResult.url, args[1], EntryFlag, NoError)

\* A 301 to https://example.com behind the built-in safelink entry.
C19_Witness ==
    /\ ResolutionSucceeded
    /\ args = <<UrlSafelink>>
    /\ cfg.ManualShorteners = <<>>
    /\ proc = Processed(UrlExample, UrlSafelink, TRUE, NoError)

\* C20: in the root command rule matching uses url_for_matching, the resolved URL after a
\* successful resolution; Launch gets original_url exactly when is_safelink is true and
\* url_for_matching otherwise, with the profile and incognito of that match result.
C20_MatchOnResolvedLaunchByFlag ==
    /\ ResolutionSucceeded => proc.urlForMatching = resolveResult.url
    /\ (ProcessReturned /\ pc # "idle") => inputURL = proc.urlForMatching
    /\ (ProcessReturned /\ pc = "returned") =>
          result = matchRules(cfg.Profiles, cfg.DefaultProfileID, callerRules, proc.urlForMatching)
    /\ launched # <<>> =>
          /\ result.err = NoError
          /\ launched[1].URL = IF proc.isSafelink THEN proc.originalURL ELSE proc.urlForMatching
          /\ launched[1].ProfileID = result.ProfileID
          /\ launched[1].Incognito = result.Incognito

\* A safelink that resolves to https://example.com: the rule for example.com chose the
\* profile, not the rule for bit.ly, and the browser got the bit.ly URL.
C20_Witness ==
    /\ ResolutionSucceeded
    /\ proc = Processed(UrlExample, UrlShort, TRUE, NoError)
    /\ callerRules = <<RuleGenericDomain, RuleShortHost>>
    /\ result = Fired(RuleGenericDomain)
    /\ launched # <<>>
    /\ launched[1].URL = UrlShort
    /\ launched[1].ProfileID = "default-profile"
    /\ launched[1].started

(***************************************************************************)
(* Properties of the order of steps in the root command.                   *)
(***************************************************************************)
\* C21: in one invocation the steps run in the order ProcessURL, ApplyRules, Launch: ApplyRules
\* is called only once ProcessURL returned without error, Launch is called at most once and
\* only once both returned without error, and an error of either ends the invocation with a
\* non-zero exit and no browser process started.
C21_StepsInOrder ==
    [][/\ pc' # pc /\ pc = "idle" => ProcessReturned' /\ proc'.err = NoError /\ launched' = <<>>
       /\ pc' = "returned" /\ pc # "returned" => proc.err = NoError /\ rootPc = "rules" /\ launched' = <<>>
       /\ launched' # launched =>
             /\ launched = <<>>
             /\ Len(launched') = 1
             /\ rootPc = "rules" /\ proc.err = NoError
             /\ pc = "returned" /\ result.err = NoError
             /\ rootPc' = "exited"
       /\ (rootPc' = "exited" /\ (proc'.err # NoError \/ result'.err # NoError)) =>
             /\ exitCode' = 1
             /\ launched' = <<>>
       /\ rootPc = "exited" => UNCHANGED vars]_vars

\* ProcessURL and ApplyRules returned without error and the browser was started.
C21_Witness ==
    /\ rootPc = "exited"
    /\ proc.err = NoError
    /\ pc = "returned" /\ result.err = NoError
    /\ Len(launched) = 1 /\ launched[1].started
    /\ exitCode = 0

(***************************************************************************)
(* Properties of the bare-string input of ApplyRules.                      *)
(***************************************************************************)
\* C22: an input with no scheme and no host but a path, such as example.com/foo, is parsed
\* again behind http:// and gets that host and path while its scheme stays empty: the Domain
\* scope is matched against example.com, the Path scope against /foo and the Url scope
\* against example.com/foo, with no scheme:// in front.
C22_BareStringReparsed ==
    /\ inputURL = UrlBare =>
          /\ Parse(inputURL).Host = <<>> /\ Parse(inputURL).Path = UrlBare
          /\ parseInput(inputURL).Scheme = <<>>
          /\ getMatchString(parseInput(inputURL), ScopeDomain)
                = <<"e", "x", "a", "m", "p", "l", "e", ".", "c", "o", "m">>
          /\ getMatchString(parseInput(inputURL), ScopePath) = <<"/", "f", "o", "o">>
          /\ getMatchString(parseInput(inputURL), ScopeURL) = UrlBare
    /\ OnlyRule(UrlBare, RuleBare) => result = Fired(RuleBare)
    /\ OnlyRule(UrlBare, RuleGenericDomain) => result.Rule = <<>>

\* For example.com/foo the Url rule ^example\.com/foo$ fired and the longer Url rule anchored
\* on https:// did not.
C22_Witness ==
    /\ Scanned
    /\ inputURL = UrlBare
    /\ rulesToSort = <<RuleGenericDomain, RuleBare>>
    /\ result = Fired(RuleBare)

(***************************************************************************)
(* Termination of ResolveShortenedURL.  Every request returns, with a      *)
(* response or with an error, at the latest when the client's timeout of   *)
(* ten seconds expires, so the loop always takes its next step: weak       *)
(* fairness of the loop step.  The step is enabled exactly inside the      *)
(* loop, and the fairness condition is written with that state predicate   *)
(* in the place of ENABLED <<ResolveNext>>_vars.                           *)
(***************************************************************************)
\* WF_vars(ResolveNext), with rpc = "loop" for ENABLED <<ResolveNext>>_vars.
ResolveStepIsFair == []<>(rpc # "loop") \/ []<><<ResolveNext>>_vars

ResolveFairSpec == ResolveInit /\ [][ResolveNext]_vars /\ ResolveStepIsFair

\* The requests of one method issued so far.
RequestsBy(method) == {n \in 1..Len(requests) : requests[n].Method = method}

\* C26: ResolveShortenedURL always terminates, whatever the responses: it issues at most five
\* HEAD requests and at most one GET, one after another, and then has returned either a URL or
\* an error.
C26_ResolverTerminates ==
    /\ [](/\ Cardinality(RequestsBy("HEAD")) <= maxRedirects
          /\ Cardinality(RequestsBy("GET")) <= 1
          /\ \A n \in 1..Len(requests) : requests[n].hop <= hop
          /\ \A n \in 2..Len(requests) : requests[n - 1].hop <= requests[n].hop
          /\ ResolverDone => (resolveResult.url # <<>>) # (resolveResult.err # NoError))
    /\ <>[]ResolverDone

\* A redirect cycle on https://bit.ly/next, entered through the GET fallback: five HEAD
\* requests and one GET, then "too many redirects".
C26_Witness ==
    /\ ResolverDone
    /\ Cardinality(RequestsBy("HEAD")) = maxRedirects
    /\ Cardinality(RequestsBy("GET")) = 1
    /\ \A n \in 3..Len(requests) : requests[n].URL = UrlShortNext
    /\ resolveResult.err = ErrTooManyRedirects

(***************************************************************************)
(* Properties of Launch.                                                   *)
(***************************************************************************)
\* Launch was called.
LaunchReturned == rootPc = "exited" /\ launched # <<>>

\* Launch built a command.
CommandBuilt == LaunchReturned /\ launched[1].Args # <<>>

\* The profile and the browser Launch looked up.
LaunchedProfile == profileByID(cfg.Profiles, launched[1].ProfileID)

LaunchedBrowser == browserByID(cfg.Browsers, LaunchedProfile.BrowserID)

\* The arguments after those of exec.Command.
AppendedArgs ==
    SubSeq(launched[1].Args, Len(commandArgs(LaunchedBrowser)) + 1, Len(launched[1].Args))

HasProfileArg == LaunchedBrowser.ProfileArg # <<>> /\ LaunchedProfile.ProfileDir # ""

HasIncognitoArg == launched[1].Incognito /\ LaunchedBrowser.IncognitoArg # <<>>

\* A profile argument of the browser: its template, with the directory filled in if it
\* has a place for one.
IsProfileArg(a) ==
    \/ a = ReplaceFirst(LaunchedBrowser.ProfileArg, "%s", LaunchedProfile.ProfileDir)
    \/ a = LaunchedBrowser.ProfileArg

PlatformFlags == {<<"--enable-features=UseOzonePlatform">>, <<"--ozone-platform=wayland">>}

Ord(b) == IF b THEN 1 ELSE 0

\* C23: the arguments Launch appends are, in this order, the profile argument (only when
\* the browser's ProfileArg and the profile's ProfileDir are both non-empty), the
\* incognito argument (only when incognito is set and the browser's IncognitoArg is
\* non-empty), the platform-conditional flags, and the target URL, last and exactly once.
C23_ArgumentOrder ==
    CommandBuilt =>
        LET a == AppendedArgs
            p == Ord(HasProfileArg)
            i == Ord(HasIncognitoArg)
        IN  /\ Len(a) >= p + i + 1
            /\ HasProfileArg => IsProfileArg(a[1])
            /\ HasIncognitoArg => a[p + 1] = LaunchedBrowser.IncognitoArg
            /\ \A k \in (p + i + 1)..(Len(a) - 1) : a[k] \in PlatformFlags
            /\ a[Len(a)] = launched[1].URL
            /\ Cardinality({k \in 1..Len(a) : a[k] = launched[1].URL}) = 1

\* A command with profile argument, incognito argument, platform flags and URL.
C23_Witness ==
    /\ CommandBuilt /\ HasProfileArg /\ HasIncognitoArg
    /\ Len(AppendedArgs) = 5
    /\ AppendedArgs[1] = <<"--profile-directory", "=", "Default">>
    /\ AppendedArgs[5] = UrlExample

\* The profile and the browser of the call are in the configuration.
LaunchLookupsSucceed ==
    /\ FindProfileByID(cfg.Profiles, result.ProfileID)
    /\ FindBrowserByID(cfg.Browsers, profileByID(cfg.Profiles, result.ProfileID).BrowserID)

\* C24: Launch returns an error and starts no process when the profile id is not a
\* profile of the configuration or the profile's browser id is not a browser of the
\* configuration; with both found, the command is the browser's, for the profile, the URL
\* and the incognito flag of the call, and the only error left is that of cmd.Start.
C24_LaunchValidates ==
    LaunchReturned =>
        /\ launched[1].ProfileID = result.ProfileID
        /\ launched[1].URL = urlToLaunch
        /\ launched[1].Incognito = result.Incognito
        /\ launched[1].started <=> launched[1].err = NoError
        /\ ~LaunchLookupsSucceed =>
              /\ launched[1].err \in {ErrCannotLaunch, ErrCannotFindBrowser}
              /\ ~launched[1].started
              /\ launched[1].Args = <<>>
              /\ exitCode = 1
        /\ LaunchLookupsSucceed =>
              /\ launched[1].err \in {NoError, ErrStart}
              /\ launched[1].started => launchSucceeds(cfg, result.ProfileID, TRUE)
              /\ \E env \in Environments :
                    launched[1].Args =
                        commandArgs(LaunchedBrowser)
                            \o launchArgs(LaunchedBrowser,
                                          profileByID(cfg.Profiles, result.ProfileID),
                                          urlToLaunch, result.Incognito, env)

\* The profile's browser is missing, and nothing was started.
C24_Witness ==
    /\ LaunchReturned
    /\ FindProfileByID(cfg.Profiles, result.ProfileID)
    /\ ~LaunchLookupsSucceed
    /\ launched[1].err = ErrCannotFindBrowser
    /\ ~launched[1].started

(***************************************************************************)
(* Properties of the configuration and its commands.                       *)
(***************************************************************************)
\* initConfig loaded a configuration.
ConfigLoaded == rootPc = "loaded"

\* C25: after every successful LoadConfig the built-in list of the configuration is the
\* list of DefaultConfig, whatever the file holds under shorteners, and the manual list is
\* the one of the file (the empty list when the file has none).
C25_BuiltinListImmutable ==
    ConfigLoaded =>
        /\ cfg.Shorteners = DefaultShorteners
        /\ cfg.ManualShorteners =
              IF file.manual_shorteners.set THEN file.manual_shorteners.v ELSE <<>>

\* A file with a list of its own under shorteners and a manual entry, loaded.
C25_Witness ==
    /\ ConfigLoaded
    /\ file.shorteners = Key(<<Shortener(DomainEvil, TRUE)>>)
    /\ file.manual_shorteners = Key(<<Shortener(DomainBitly, TRUE)>>)

\* The configuration the commands find in the file.
Stored == LoadConfig(file).cfg

\* A rule of the configuration names this profile.
Referenced(c, profileID) == \E k \in 1..Len(c.Rules) : c.Rules[k].ProfileID = profileID

\* The default profile and the profile of every rule exist.
ReferencesValid(c) ==
    /\ c.DefaultProfileID # ""
    /\ FindProfileByID(c.Profiles, c.DefaultProfileID)
    /\ \A k \in 1..Len(c.Rules) : FindProfileByID(c.Profiles, c.Rules[k].ProfileID)

\* The command that just ran.
Command(name) == cmd'.name = name

\* The command that just ran left the file as it was.
Refused == cmd'.outcome = "failed" /\ file' = file

\* C27: from a configuration whose default profile and rules name existing profiles, the
\* same holds after any sequence of profile add, edit, delete, set-default, rule add, edit
\* and delete; profile delete is refused and changes nothing for the default profile and
\* for a profile a rule names, and set-default is refused for an id that names no profile.
C27_ReferencesStayValid ==
    /\ [](rootPc = "shell" => ReferencesValid(Stored))
    /\ [][/\ Command("profile delete") /\ cmd'.arg # ""
             /\ \/ cmd'.arg = Stored.DefaultProfileID
                \/ Referenced(Stored, cmd'.arg)
             => Refused
          /\ Command("set-default") /\ cmd'.arg # ""
             /\ ~FindProfileByID(Stored.Profiles, cmd'.arg)
             => Refused]_vars

\* A delete of a profile that a rule names and that is not the default, refused.
C27_Witness ==
    /\ rootPc = "shell"
    /\ cmd.name = "profile delete" /\ cmd.outcome = "failed"
    /\ FindProfileByID(Stored.Profiles, cmd.arg)
    /\ Referenced(Stored, cmd.arg)
    /\ Stored.DefaultProfileID # cmd.arg
    /\ Len(Stored.Profiles) = 2

\* The profile edit that just ran changed the id of a profile.
IDChanged ==
    /\ Command("profile edit") /\ cmd'.outcome = "saved"
    /\ ~FindProfileByID(LoadConfig(file').cfg.Profiles, cmd'.arg)

\* The id that replaced the old one, at the same place of the list.
NewID == LoadConfig(file').cfg.Profiles[indexOfProfile(Stored.Profiles, cmd'.arg)].ID

\* C28: when profile edit changes a profile's id, no other profile had the new id, every
\* rule that named the old id names the new one, the default profile is the new id when it
\* was the old one, no rule and no default names the old id any more, and the rules of
\* other profiles are as they were.
C28_IDChangeCascades ==
    [][IDChanged =>
          LET old == Stored
              new == LoadConfig(file').cfg
          IN  /\ NewID # cmd'.arg
              /\ ~FindProfileByID(old.Profiles, NewID)
              /\ Cardinality({k \in 1..Len(new.Profiles) : new.Profiles[k].ID = NewID}) = 1
              /\ Len(new.Rules) = Len(old.Rules)
              /\ \A k \in 1..Len(old.Rules) :
                    IF old.Rules[k].ProfileID = cmd'.arg
                    THEN new.Rules[k] = [old.Rules[k] EXCEPT !.ProfileID = NewID]
                    ELSE new.Rules[k] = old.Rules[k]
              /\ old.DefaultProfileID = cmd'.arg => new.DefaultProfileID = NewID
              /\ new.DefaultProfileID # cmd'.arg
              /\ ~Referenced(new, cmd'.arg)]_vars

\* The default profile, named by one of two rules, was renamed.
C28_Witness ==
    /\ cmd.name = "profile edit" /\ cmd.outcome = "saved"
    /\ cmd.arg = "default-profile"
    /\ Stored.DefaultProfileID = "renamed-profile"
    /\ Len(Stored.Rules) = 2
    /\ Stored.Rules[1].ProfileID = "renamed-profile"
    /\ Stored.Rules[2].ProfileID = "work-profile"

\* C29: detect-browsers --save keeps the manual shortener list and the built-in list: the
\* configuration in the file after the command has both lists as they were before it.
C29_DetectKeepsShortenerLists ==
    [][Command("detect-browsers")
       => /\ LoadConfig(file').cfg.ManualShorteners = Stored.ManualShorteners
          /\ LoadConfig(file').cfg.Shorteners = Stored.Shorteners]_vars

\* No two entries of the list have the same domain.
NoDuplicateDomain(list) ==
    \A j, k \in 1..Len(list) : list[j].Domain = list[k].Domain => j = k

\* The manual list has no duplicate and no domain of the built-in list.
ListsSeparate(c) ==
    /\ NoDuplicateDomain(c.ManualShorteners)
    /\ DomainsOf(c.ManualShorteners) \cap DomainsOf(c.Shorteners) = {}

\* C30: from a manual list without duplicate domains and disjoint from the built-in list,
\* after any sequence of shorturl add, edit and delete the manual list has no duplicate
\* domain and no domain of the built-in list, and the built-in list is as it was; add is
\* refused for a domain of either list and delete for a built-in domain, and a refused
\* command leaves the file unchanged.
C30_ListsStaySeparate ==
    /\ [](rootPc = "shell" => ListsSeparate(Stored))
    /\ [][/\ file'.shorteners = file.shorteners
          /\ LoadConfig(file').cfg.Shorteners = Stored.Shorteners
          /\ Command("shorturl add")
             /\ cmd'.arg \in DomainsOf(Stored.Shorteners) \cup DomainsOf(Stored.ManualShorteners)
             => Refused
          /\ Command("shorturl delete") /\ cmd'.arg \in DomainsOf(Stored.Shorteners)
             => Refused]_vars

\* A manual domain was added to the empty list, and adding a built-in domain was refused
\* after that.
C30_Witness ==
    /\ cmd.name = "shorturl add"
    /\ cmd.outcome = "failed"
    /\ cmd.arg = DomainBitly
    /\ Stored.ManualShorteners = <<Shortener(DomainGo, TRUE)>>

==============================================================================
